---- MODULE Spec2Model ----
(***************************************************************************)
(* Verification model of the message-processing core of wa_llm:            *)
(*   - the in-memory dedup guard of MessageHandler.__call__                *)
(*     (src/src/handler/__init__.py),                                      *)
(*   - the context window builder (src/src/utils/context.py),              *)
(*   - the intent router (src/src/handler/router.py,                       *)
(*     src/src/handler/knowledge_base_answers.py),                         *)
(*   - the transcript renderer (src/src/utils/chat_text.py),               *)
(*   - the tasks running MessageHandler.__call__, one per delivery,        *)
(*   - the slice Router.summarize fetches and renders.                     *)
(* Each subsystem has its own specification (SpecGuard, SpecCtx,           *)
(* SpecRouter, SpecRender, SpecHandler, SpecSummarize) over the variables  *)
(* declared below; a specification leaves the variables of the other       *)
(* subsystems unchanged.                                                   *)
(***************************************************************************)
EXTENDS Integers, Sequences, FiniteSets, TLC

VARIABLES
    \* ---- dedup guard (handler/__init__.py) ----
    now,          \* the TTLCache timer, in seconds
    _processing_cache,  \* TTLCache entries [key, expires], least recently set first
    _processing_lock,   \* the task holding the asyncio.Lock, or NoTask
    pc,           \* position of every handler task in MessageHandler.__call__
    msg,          \* message_id of the payload every task is handling (0: none)
    admissions,   \* history: the admissions so far, [id, at, by], in order
    delivered,    \* history: number of payloads delivered so far
    \* ---- context window builder (utils/context.py) ----
    db,             \* the Message table: message_id -> row
    message,        \* the triggering message passed to build_context_window
    token_budget,   \* its token_budget argument
    max_messages,   \* its max_messages argument
    cpc,            \* "input" before the call, "done" after it
    reply_chain,    \* the call's reply_chain
    recent,         \* the call's recent
    combined,       \* the list the call returns
    fetched,        \* whether the call ran the recent-messages query
    fetched_rows,   \* candidates: the rows that query returned, as returned
    stored_during,  \* history: the ids other deliveries stored during the call
    \* ---- intent router (handler/router.py, knowledge_base_answers.py) ----
    rpc,            \* position in Router.__call__
    rtext,          \* message.text: "None", "" or "text"
    community,      \* whether message.group has community_keys
    intent,         \* what _route returned, "unset" before
    strategy,       \* the strategy running, "none" before
    step,           \* index of the strategy's awaited call
    attempts,       \* tenacity's attempt_number for a retry-wrapped call
    invoked,        \* history: the strategies invoked, in order
    backendCalls,   \* history: reasoning-backend calls made by the strategy
    sent,           \* history: outbound messages the transport acknowledged
    caught,         \* history: the except branch of Router.__call__ was entered
    outcome,        \* "running", "returned", or "raised" to the caller
    \* ---- transcript rendering (utils/chat_text.py and its callers) ----
    history,        \* the message slice handed to chat2text
    asker,          \* message.sender_jid of the triggering message
    optOutStore,    \* the jids that have an OptOut row
    tpc,            \* "input" until the map is read, the await it is suspended in, "done" after
    renderedBy,     \* which caller rendered: "summarize", "ask_knowledge_base", "any"
    all_jids,       \* the jids the caller passed to get_opt_out_map
    opt_out_map,    \* the map handed to chat2text
    bot_arg,        \* the bot_jid argument of chat2text, NoJid for None
    transcript,     \* chat2text's lines
    asker_display,  \* the caller's sender_display for the asker
    \* ---- the tasks running MessageHandler.__call__ (handler/__init__.py) ----
    payload,        \* the message the deliveries carry, a redelivery repeating it
    inbound,        \* task -> the stored message of the delivery it handles
    hpc,            \* task -> its position in MessageHandler.__call__
    journal,        \* task -> history: the calls it made, in order
    outbox,         \* task -> history: what it handed to send_message
    dm_autoreply_enabled,  \* settings.dm_autoreply_enabled
    optOutRecords,  \* the OptOut table: jid -> number of rows
    lastCommand,    \* history: every sender's most recent opt-out/opt-in command
    admittedAt,     \* history: when every message_id last passed the guard
    todo,           \* the calls still ahead of every task inside a try block
    \* ---- Router.summarize's query (handler/router.py); with the rendering variables ----
    table,          \* the Message table: message_id -> row
    asking_chat,    \* message.chat_jid of the asking message
    call_time,      \* datetime.now() at the call, in minutes
    \* ---- resolve_reply_chain step by step (utils/context.py); with the builder's variables ----
    wpc,            \* "walking", "returned" or "built"
    walk_max_depth, \* the max_depth argument
    walk_current,   \* current
    walk_chain,     \* chain, newest ancestor last, before chain.reverse()
    walk_lookups,   \* history: number of session.get calls made
    walk_raised,    \* history: a session.get raised
    \* ---- concurrent direct messages (handler/__init__.py lines 64-84, 252-288) ----
    dm              \* task -> its position, message, lookup result, calls and texts

guardVars == <<now, _processing_cache, _processing_lock, pc, msg, admissions, delivered>>

ctxVars == <<db, message, token_budget, max_messages, cpc, reply_chain, recent,
             combined, fetched, fetched_rows, stored_during>>

routerVars == <<rpc, rtext, community, intent, strategy, step, attempts, invoked,
                backendCalls, sent, caught, outcome>>

renderVars == <<history, asker, optOutStore, tpc, renderedBy, all_jids, opt_out_map,
                bot_arg, transcript, asker_display>>

handlerVars == <<payload, inbound, hpc, journal, outbox, dm_autoreply_enabled, optOutRecords,
                 lastCommand, admittedAt, todo>>

summarizeVars == <<table, asking_chat, call_time>>

walkVars == <<wpc, walk_max_depth, walk_current, walk_chain, walk_lookups, walk_raised>>

dmVars == <<dm>>

vars == <<guardVars, ctxVars, routerVars, renderVars, handlerVars, summarizeVars,
          walkVars, dmVars>>

notGuardVars == <<dmVars, walkVars, summarizeVars, ctxVars, routerVars, renderVars, handlerVars>>
notCtxVars == <<dmVars, walkVars, summarizeVars, guardVars, routerVars, renderVars, handlerVars>>
notRouterVars == <<dmVars, walkVars, summarizeVars, guardVars, ctxVars, renderVars, handlerVars>>
notRenderVars == <<dmVars, walkVars, summarizeVars, guardVars, ctxVars, routerVars, handlerVars>>
\* The handler specification shares the guard's timer and cache.
notHandlerVars == <<_processing_lock, pc, msg, admissions, delivered,
                    ctxVars, routerVars, renderVars, summarizeVars, walkVars,
                    dmVars, dm_autoreply_enabled, optOutRecords, lastCommand>>
\* The direct-message specification works on the OptOut table and the setting.
notDmVars == <<guardVars, ctxVars, routerVars, renderVars, summarizeVars, walkVars,
               payload, inbound, hpc, journal, outbox, admittedAt, todo>>
\* The summarize specification renders with the rendering variables.
notSummarizeVars == <<dmVars, guardVars, ctxVars, routerVars, handlerVars, walkVars>>
\* The walk specification works on the context builder's variables.
notWalkVars == <<dmVars, guardVars, routerVars, renderVars, handlerVars, summarizeVars>>

(***************************************************************************)
(* Bounds of the model.                                                    *)
(***************************************************************************)
\* The model's cache capacity. The program's TTLCache has maxsize=1000
\* (handler/__init__.py:21); the model keeps the eviction rule and scales the
\* capacity down so that a full cache is reachable.
MaxSize == 2
\* Concurrent handler tasks.
NumTasks == 2
\* Payloads delivered in one behaviour.
MaxDeliveries == 4
\* The clock advances in steps of TickSeconds, MaxTicks times at most.
TickSeconds == 120
MaxTicks == 2

\* The subsystems a specification does not exercise stay in these states.
CtxOff ==
    /\ db = <<>>
    /\ message = <<>>
    /\ token_budget = 0
    /\ max_messages = 0
    /\ cpc = "off"
    /\ reply_chain = <<>>
    /\ recent = <<>>
    /\ combined = <<>>
    /\ fetched = FALSE
    /\ fetched_rows = <<>>
    /\ stored_during = {}

WalkOff ==
    /\ wpc = "off"
    /\ walk_max_depth = 0
    /\ walk_current = <<>>
    /\ walk_chain = <<>>
    /\ walk_lookups = 0
    /\ walk_raised = FALSE

SummarizeOff ==
    /\ table = <<>>
    /\ asking_chat = ""
    /\ call_time = 0

DmOff == dm = <<>>

HandlerOff ==
    /\ DmOff
    /\ payload = <<>>
    /\ inbound = <<>>
    /\ hpc = "off"
    /\ journal = <<>>
    /\ outbox = <<>>
    /\ dm_autoreply_enabled = FALSE
    /\ optOutRecords = <<>>
    /\ lastCommand = <<>>
    /\ admittedAt = <<>>
    /\ todo = <<>>

RenderOff ==
    /\ history = <<>>
    /\ asker = <<>>
    /\ optOutStore = {}
    /\ tpc = "off"
    /\ renderedBy = "none"
    /\ all_jids = {}
    /\ opt_out_map = <<>>
    /\ bot_arg = <<>>
    /\ transcript = <<>>
    /\ asker_display = ""

RouterOff ==
    /\ rpc = "off"
    /\ rtext = "None"
    /\ community = FALSE
    /\ intent = "unset"
    /\ strategy = "none"
    /\ step = 0
    /\ attempts = 0
    /\ invoked = <<>>
    /\ backendCalls = 0
    /\ sent = <<>>
    /\ caught = FALSE
    /\ outcome = "running"

GuardOff ==
    /\ now = 0
    /\ _processing_cache = <<>>
    /\ _processing_lock = 0
    /\ pc = <<>>
    /\ msg = <<>>
    /\ admissions = <<>>
    /\ delivered = 0

Tasks == 1..NumTasks
NoTask == 0
\* One message id more than the cache holds, so that capacity eviction happens.
MessageIds == 1..(MaxSize + 1)

\* Context window inputs: the stored messages, their timestamps and text
\* lengths, and the budget and slot arguments.
MsgIds == {1, 2, 3}
MaxTs == 2
MaxBudget == 2
MaxSlots == 2
TextLens == {0, 3, 7}

\* Transcript inputs: the length of the rendered slice.
MaxHistory == 2

\* Router.summarize: .limit(30)
SummarizeLimit == 30

(***************************************************************************)
(* cachetools.TTLCache(maxsize, ttl) as _processing_cache uses it:         *)
(* `key in cache` and `cache[key] = True`. Entries are kept in the order   *)
(* of their links, least recently set first.                               *)
(***************************************************************************)
\* ttl=4 * 60 seconds
ttl == 4 * 60

Keys(c) == {c[i].key : i \in 1..Len(c)}

\* A mutation of CacheContains: plain dict membership, the expiry time ignored.
CacheContainsNoExpiry(c, key, t) ==
    \E i \in 1..Len(c) : c[i].key = key

\* A mutation of CacheContains: the cache never reports a key.
CacheNeverContains(c, key, t) == FALSE

\* TTLCache.__contains__: the key has a link and the timer is before its expiry.
CacheContains(c, key, t) ==
    \E i \in 1..Len(c) : c[i].key = key /\ t < c[i].expires

\* TTLCache.expire(time): drop every entry with not (time < expires).
CacheExpire(c, t) ==
    SelectSeq(c, LAMBDA e : t < e.expires)

\* A mutation of CachePopUntilRoom: the most recently set key is the one popped.
RECURSIVE CachePopNewestUntilRoom(_)
CachePopNewestUntilRoom(c) ==
    IF Len(c) + 1 > MaxSize /\ Len(c) > 0
    THEN CachePopNewestUntilRoom(SubSeq(c, 1, Len(c) - 1))
    ELSE c

\* Cache.__setitem__'s `while currsize + size > maxsize: self.popitem()`:
\* popitem removes the first key of the links, the least recently set one.
RECURSIVE CachePopUntilRoom(_)
CachePopUntilRoom(c) ==
    IF Len(c) + 1 > MaxSize /\ Len(c) > 0 THEN CachePopUntilRoom(Tail(c)) ELSE c

\* TTLCache.__setitem__(key, True) at time t: expire, make room for a new key,
\* store, and move the key's link to the end with expires = t + ttl.
CacheSet(c, key, t) ==
    LET live == CacheExpire(c, t)
        room == IF key \in Keys(live)
                THEN SelectSeq(live, LAMBDA e : e.key # key)
                ELSE CachePopUntilRoom(live)
    IN  Append(room, [key |-> key, expires |-> t + ttl])

(***************************************************************************)
(* MessageHandler.__call__, the dedup guard (lines 86-94).                 *)
(*   idle    no payload                                                    *)
(*   guard   at `async with _processing_lock`, waiting for the lock        *)
(*   check   holding the lock, at `if message.message_id in cache`         *)
(*   set     holding the lock, at `_processing_cache[message_id] = True`   *)
(*   skipped returned at line 93                                           *)
(*   admitted past the guard, line 96 onwards                              *)
(* The check and the insert are separate steps of the model: the lock, not *)
(* the scheduler, is what keeps them together.                             *)
(***************************************************************************)
GuardInit ==
    /\ CtxOff
    /\ RouterOff
    /\ RenderOff
    /\ HandlerOff
    /\ SummarizeOff
    /\ WalkOff
    /\ now = 0
    /\ _processing_cache = <<>>
    /\ _processing_lock = NoTask
    /\ pc = [t \in Tasks |-> "idle"]
    /\ msg = [t \in Tasks |-> 0]
    /\ admissions = <<>>
    /\ delivered = 0

\* The message ids seen so far. Ids are interchangeable, so a fresh id is
\* always the smallest unused one.
UsedIds ==
    ({admissions[i].id : i \in 1..Len(admissions)} \cup {msg[t] : t \in Tasks}) \ {0}

\* A payload with message_id m reaches the guard in task t. Tasks are
\* interchangeable too: the payload gets the first idle one.
Receive(t, m) ==
    /\ pc[t] = "idle"
    /\ \A u \in 1..(t - 1) : pc[u] # "idle"
    /\ delivered < MaxDeliveries
    /\ \A k \in 1..(m - 1) : k \in UsedIds
    /\ pc' = [pc EXCEPT ![t] = "guard"]
    /\ msg' = [msg EXCEPT ![t] = m]
    /\ delivered' = delivered + 1
    /\ UNCHANGED <<now, _processing_cache, _processing_lock, admissions>>
    /\ UNCHANGED notGuardVars

\* A mutation of LockFree: the _processing_lock is taken whoever holds it.
LockFreeAlways == TRUE

\* asyncio.Lock.acquire succeeds only when the _processing_lock is not held.
LockFree == _processing_lock = NoTask

\* A mutation of LockOnExit: the task leaves the section still holding the lock.
LockKeptOnExit(t) == t

\* `async with _processing_lock:` left, by the return at line 93 or at the end
\* of the block at line 94: the lock is released.
LockOnExit(t) == NoTask

\* `async with _processing_lock:` entered.
Acquire(t) ==
    /\ pc[t] = "guard"
    /\ LockFree
    /\ _processing_lock' = t
    /\ pc' = [pc EXCEPT ![t] = "check"]
    /\ UNCHANGED <<now, _processing_cache, msg, admissions, delivered>>
    /\ UNCHANGED notGuardVars

\* `if message.message_id in _processing_cache: return` (_processing_lock released on exit).
CheckCache(t) ==
    /\ pc[t] = "check"
    /\ IF CacheContains(_processing_cache, msg[t], now)
       THEN /\ pc' = [pc EXCEPT ![t] = "skipped"]
            /\ _processing_lock' = LockOnExit(t)
       ELSE /\ pc' = [pc EXCEPT ![t] = "set"]
            /\ UNCHANGED _processing_lock
    /\ UNCHANGED <<now, _processing_cache, msg, admissions, delivered>>
    /\ UNCHANGED notGuardVars

\* `_processing_cache[message.message_id] = True`, then the _processing_lock is released.
SetCache(t) ==
    /\ pc[t] = "set"
    /\ _processing_cache' = CacheSet(_processing_cache, msg[t], now)
    /\ admissions' = Append(admissions, [id |-> msg[t], at |-> now, by |-> t])
    /\ _processing_lock' = LockOnExit(t)
    /\ pc' = [pc EXCEPT ![t] = "admitted"]
    /\ UNCHANGED <<now, msg, delivered>>
    /\ UNCHANGED notGuardVars

\* The rest of __call__ ends (line 96 onwards, or the return at line 93).
Finish(t) ==
    /\ pc[t] \in {"skipped", "admitted"}
    /\ pc' = [pc EXCEPT ![t] = "idle"]
    /\ msg' = [msg EXCEPT ![t] = 0]
    /\ UNCHANGED <<now, _processing_cache, _processing_lock, admissions, delivered>>
    /\ UNCHANGED notGuardVars

\* Time passes.
Tick ==
    /\ now < MaxTicks * TickSeconds
    /\ now' = now + TickSeconds
    /\ UNCHANGED <<_processing_cache, _processing_lock, pc, msg, admissions, delivered>>
    /\ UNCHANGED notGuardVars

GuardNext ==
    \/ \E t \in Tasks, m \in MessageIds : Receive(t, m)
    \/ \E t \in Tasks : Acquire(t)
    \/ \E t \in Tasks : CheckCache(t)
    \/ \E t \in Tasks : SetCache(t)
    \/ \E t \in Tasks : Finish(t)
    \/ Tick

SpecGuard == GuardInit /\ [][GuardNext]_vars

(***************************************************************************)
(* Dedup guard: the admission history read by the properties.              *)
(***************************************************************************)
\* Index of the latest admission of message id m, 0 when there is none.
LastAdmission(m) ==
    LET S == {i \in 1..Len(admissions) : admissions[i].id = m}
    IN  IF S = {} THEN 0 ELSE CHOOSE i \in S : \A j \in S : j <= i

\* Index of the latest admission made by task t, 0 when there is none.
AdmIdx(t) ==
    LET S == {i \in 1..Len(admissions) : admissions[i].by = t}
    IN  IF S = {} THEN 0 ELSE CHOOSE i \in S : \A j \in S : j <= i

\* Number of admissions of other ids strictly between positions i and j.
OthersBetween(i, j) ==
    Cardinality({k \in (i + 1)..(j - 1) : admissions[k].id # admissions[i].id})

\* The timer is inside the TTL window opened by the latest admission of m.
InWindow(m) ==
    LET i == LastAdmission(m)
    IN  i > 0 /\ now < admissions[i].at + ttl

\* Fewer than the capacity of other ids were admitted since m's latest admission.
WithinCapacity(m) ==
    LET i == LastAdmission(m)
    IN  i > 0 /\ OthersBetween(i, Len(admissions) + 1) < MaxSize

\* C1 as stated: a membership check rejects exactly when the timer is inside the
\* 4-minute window of the id's latest admission, whatever other ids were
\* admitted in between; so the first check of a window admits, every later
\* check of the window rejects, and a check after the window admits again.
C1_AdmitOncePerWindow ==
    [][\A t \in Tasks :
          (pc[t] = "check" /\ pc'[t] # "check")
              => (pc'[t] = "skipped" <=> InWindow(msg[t]))]_vars

\* C1 amended: a membership check rejects exactly when the timer is inside the
\* TTL window of the id's latest admission and fewer than the _processing_cache capacity of
\* other ids were admitted since; otherwise (no admission yet, window over, or
\* entry evicted by capacity) it admits.
C1_AdmitOncePerWindowWithinCapacity ==
    [][\A t \in Tasks :
          (pc[t] = "check" /\ pc'[t] # "check")
              => (pc'[t] = "skipped"
                    <=> (InWindow(msg[t]) /\ WithinCapacity(msg[t])))]_vars

\* C1 witness: an id admitted, admitted again after its window elapsed, and
\* then rejected inside the new window although another id was admitted in
\* between.
C1_Witness ==
    \E t \in Tasks :
        /\ pc[t] = "skipped"
        /\ LET i == LastAdmission(msg[t])
           IN  /\ i > 0
               /\ OthersBetween(i, Len(admissions) + 1) >= 1
               /\ \E k \in 1..(i - 1) :
                     /\ admissions[k].id = msg[t]
                     /\ admissions[i].at >= admissions[k].at + ttl

\* Where task u passed the membership check: the timer and the position in the
\* admission history (a task at "set" has passed it and is about to insert).
PassTime(u) == IF pc[u] = "set" THEN now ELSE admissions[AdmIdx(u)].at
PassIdx(u) == IF pc[u] = "set" THEN Len(admissions) + 1 ELSE AdmIdx(u)

\* Task u passed the guard inside the TTL window of task t's admission and
\* before the capacity evicted t's entry.
WithinTTLAndCapacity(t, u) ==
    /\ PassTime(u) < admissions[AdmIdx(t)].at + ttl
    /\ OthersBetween(AdmIdx(t), PassIdx(u)) < MaxSize

\* C2: under any interleaving, two tasks handling the same message_id are never
\* both past the guard when the second passed inside the first one's TTL window
\* and capacity.
C2_AtMostOnePastGuard ==
    \A t \in Tasks, u \in Tasks :
        (/\ t # u
         /\ msg[t] = msg[u]
         /\ pc[t] = "admitted"
         /\ pc[u] \in {"set", "admitted"}
         /\ AdmIdx(t) < PassIdx(u))
            => ~WithinTTLAndCapacity(t, u)

\* C2 witness: two concurrent deliveries of one id, one admitted and the other
\* rejected at the same timer value.
C2_Witness ==
    \E t \in Tasks, u \in Tasks :
        /\ t # u
        /\ msg[t] = msg[u]
        /\ pc[t] = "admitted"
        /\ pc[u] = "skipped"
        /\ admissions[AdmIdx(t)].id = msg[t]
        /\ admissions[AdmIdx(t)].at = now

(***************************************************************************)
(* utils/context.py: the context window builder.                           *)
(* A Message row is [message_id, reply_to_id, timestamp, textlen, chat_jid,*)
(* stored]: reply_to_id 0 is None, textlen is len(text or "") (0 for a     *)
(* message without text), stored says whether session.get finds the row.   *)
(***************************************************************************)
_CHARS_PER_TOKEN == 4
_MAX_REPLY_CHAIN_DEPTH == 10

NoMessage == [message_id |-> 0]

\* session.get(Message, id): the row, or None.
SessionGet(id) ==
    IF id \in DOMAIN db /\ db[id].stored THEN db[id] ELSE NoMessage

Reverse(seq) == [i \in 1..Len(seq) |-> seq[Len(seq) + 1 - i]]

\* The while loop of resolve_reply_chain: follow reply_to_id while there is one
\* and fewer than max_depth ancestors were collected; stop at a missing parent.
RECURSIVE WalkReplyChain(_, _, _)
WalkReplyChain(current, chain, max_depth) ==
    IF current.reply_to_id # 0 /\ Len(chain) < max_depth
    THEN LET parent == SessionGet(current.reply_to_id)
         IN  IF parent = NoMessage
             THEN chain
             ELSE WalkReplyChain(parent, Append(chain, parent), max_depth)
    ELSE chain

\* A mutation of ChainReturned: chain.reverse() left out.
ChainReturnedUnreversed(chain) == chain

\* `chain.reverse(); return chain` (lines 40-41): the ancestors, oldest first.
ChainReturned(chain) == Reverse(chain)

\* resolve_reply_chain(session, message) on a database that does not change
\* during the call.
resolve_reply_chain(m) ==
    ChainReturned(WalkReplyChain(m, <<>>, _MAX_REPLY_CHAIN_DEPTH))

RECURSIVE SumLen(_)
SumLen(msgs) ==
    IF msgs = <<>> THEN 0 ELSE Head(msgs).textlen + SumLen(Tail(msgs))

\* _estimate_tokens(messages): total characters // 4.
_estimate_tokens(msgs) == SumLen(msgs) \div _CHARS_PER_TOKEN

Ids(msgs) == {msgs[i].message_id : i \in 1..Len(msgs)}

\* sorted(..., key=timestamp): a stable sort, equal timestamps keep their order.
RECURSIVE InsertSorted(_, _)
InsertSorted(srt, m) ==
    IF srt = <<>> THEN <<m>>
    ELSE IF srt[Len(srt)].timestamp <= m.timestamp
         THEN Append(srt, m)
         ELSE Append(InsertSorted(SubSeq(srt, 1, Len(srt) - 1), m), srt[Len(srt)])

RECURSIVE SortedByTimestamp(_)
SortedByTimestamp(msgs) ==
    IF msgs = <<>> THEN <<>>
    ELSE InsertSorted(SortedByTimestamp(SubSeq(msgs, 1, Len(msgs) - 1)),
                      msgs[Len(msgs)])

\* select(Message).where(chat_jid == chat).order_by(desc(timestamp)).limit(n):
\* every order of the chat's rows that is newest first (rows with equal
\* timestamps come in any order), cut to n rows.
QueryRecent(chat, n) ==
    LET rows == {id \in DOMAIN db : db[id].stored /\ db[id].chat_jid = chat}
        k == Cardinality(rows)
        orders == {f \in [1..k -> rows] :
                     /\ \A i, j \in 1..k : i # j => f[i] # f[j]
                     /\ \A i \in 1..(k - 1) :
                           db[f[i]].timestamp >= db[f[i + 1]].timestamp}
    IN  {[i \in 1..(IF k < n THEN k ELSE n) |-> db[f[i]]] : f \in orders}

\* A mutation of FillRecent: a candidate over the remaining budget is skipped
\* (continue) and the loop goes on to the older ones.
RECURSIVE FillRecentSkipping(_, _, _, _, _, _)
FillRecentSkipping(candidates, seen_ids, acc, used_tokens, remaining_budget, remaining_slots) ==
    IF candidates = <<>> THEN acc
    ELSE LET m == Head(candidates)
             msg_tokens == m.textlen \div _CHARS_PER_TOKEN
         IN  IF m.message_id \in seen_ids \/ used_tokens + msg_tokens > remaining_budget
             THEN FillRecentSkipping(Tail(candidates), seen_ids, acc, used_tokens,
                                     remaining_budget, remaining_slots)
             ELSE IF Len(acc) >= remaining_slots THEN acc
             ELSE FillRecentSkipping(Tail(candidates), seen_ids \cup {m.message_id},
                                     Append(acc, m), used_tokens + msg_tokens,
                                     remaining_budget, remaining_slots)

\* The for loop over the candidates (lines 89-100): skip a seen id; stop at the
\* first candidate over the remaining budget, or when the slots are used up.
RECURSIVE FillRecent(_, _, _, _, _, _)
FillRecent(candidates, seen_ids, acc, used_tokens, remaining_budget, remaining_slots) ==
    IF candidates = <<>> THEN acc
    ELSE LET m == Head(candidates)
             msg_tokens == m.textlen \div _CHARS_PER_TOKEN
         IN  IF m.message_id \in seen_ids
             THEN FillRecent(Tail(candidates), seen_ids, acc, used_tokens,
                             remaining_budget, remaining_slots)
             ELSE IF used_tokens + msg_tokens > remaining_budget THEN acc
             ELSE IF Len(acc) >= remaining_slots THEN acc
             ELSE FillRecent(Tail(candidates), seen_ids \cup {m.message_id},
                             Append(acc, m), used_tokens + msg_tokens,
                             remaining_budget, remaining_slots)

Max(a, b) == IF a >= b THEN a ELSE b
Min(a, b) == IF a <= b THEN a ELSE b

\* A mutation of RemainingSlots: the chain's length not subtracted.
RemainingSlotsIgnoringChain(maxm, chain) == Max(0, maxm)

\* remaining_budget and remaining_slots (lines 72-73).
RemainingBudget(budget, chain) == Max(0, budget - _estimate_tokens(chain))
RemainingSlots(maxm, chain) == Max(0, maxm - Len(chain))

\* A mutation of ShouldFetch: `or` in place of `and`.
ShouldFetchEither(remaining_budget, remaining_slots) ==
    remaining_budget > 0 \/ remaining_slots > 0

\* `if remaining_budget > 0 and remaining_slots > 0` (line 77).
ShouldFetch(remaining_budget, remaining_slots) ==
    remaining_budget > 0 /\ remaining_slots > 0

\* fetch_limit = min(remaining_slots + 10, 50) (line 79).
FetchLimit(remaining_slots) == Min(remaining_slots + 10, 50)

\* A mutation of Combine: the reply chain left out of the merge.
CombineRecentOnly(chain, rec) == SortedByTimestamp(rec)

\* combined = sorted([*reply_chain, *recent], key=timestamp) (line 103).
Combine(chain, rec) == SortedByTimestamp(chain \o rec)

(***************************************************************************)
(* build_context_window step by step (utils/context.py lines 50-113). The  *)
(* call awaits once per ancestor (session.get, line 32) and once for the   *)
(* recency query (session.exec, line 86); between two awaits the           *)
(* store_message of another delivery can add a row. Every session.get      *)
(* returns or raises.                                                      *)
(***************************************************************************)
\* The max_depth arguments tried; build_context_window passes the default.
MaxDepths == {1, 2, _MAX_REPLY_CHAIN_DEPTH}

\* A mutation of ShouldLookUp: the depth bound left out.
ShouldLookUpUnbounded(current, chain, max_depth) == current.reply_to_id # 0

\* `while current.reply_to_id and len(chain) < max_depth` (line 31).
ShouldLookUp(current, chain, max_depth) ==
    current.reply_to_id # 0 /\ Len(chain) < max_depth

\* A mutation of ChainOnRaise: the ancestors collected so far dropped.
ChainOnRaiseEmpty(chain) == <<>>

\* `except Exception` (lines 37-38): logged; chain keeps what was collected.
ChainOnRaise(chain) == chain

\* `parent = await session.get(...)` returns (lines 32-36): a missing parent
\* ends the walk, a parent found is appended and becomes current.
LookupReturns ==
    /\ wpc = "walking"
    /\ ShouldLookUp(walk_current, walk_chain, walk_max_depth)
    /\ walk_lookups' = walk_lookups + 1
    /\ LET parent == SessionGet(walk_current.reply_to_id)
       IN  IF parent = NoMessage
           THEN /\ wpc' = "returned"
                /\ reply_chain' = ChainReturned(walk_chain)
                /\ UNCHANGED <<walk_chain, walk_current>>
           ELSE /\ walk_chain' = Append(walk_chain, parent)
                /\ walk_current' = parent
                /\ UNCHANGED <<wpc, reply_chain>>
    /\ UNCHANGED <<walk_max_depth, walk_raised>>
    /\ UNCHANGED <<db, message, token_budget, max_messages, cpc, recent, combined, fetched,
                   fetched_rows, stored_during>>
    /\ UNCHANGED notWalkVars

\* `await session.get(...)` raises: the except branch, chain.reverse(), return.
LookupRaises ==
    /\ wpc = "walking"
    /\ ShouldLookUp(walk_current, walk_chain, walk_max_depth)
    /\ walk_lookups' = walk_lookups + 1
    /\ walk_raised' = TRUE
    /\ wpc' = "returned"
    /\ reply_chain' = ChainReturned(ChainOnRaise(walk_chain))
    /\ UNCHANGED <<walk_max_depth, walk_current, walk_chain>>
    /\ UNCHANGED <<db, message, token_budget, max_messages, cpc, recent, combined, fetched,
                   fetched_rows, stored_during>>
    /\ UNCHANGED notWalkVars

\* The loop condition is false: chain.reverse(), return.
WalkEnds ==
    /\ wpc = "walking"
    /\ ~ShouldLookUp(walk_current, walk_chain, walk_max_depth)
    /\ wpc' = "returned"
    /\ reply_chain' = ChainReturned(walk_chain)
    /\ UNCHANGED <<walk_max_depth, walk_current, walk_chain, walk_lookups, walk_raised>>
    /\ UNCHANGED <<db, message, token_budget, max_messages, cpc, recent, combined, fetched,
                   fetched_rows, stored_during>>
    /\ UNCHANGED notWalkVars

\* build_context_window after its reply chain was resolved to chain
\* (lines 65-113): the budgets, the recency query on the table as it is now,
\* the fill loop and the merge, none of which awaits after the query.
BuildWith(chain) ==
    /\ cpc = "input"
    /\ LET seen_ids == Ids(chain) \cup {message.message_id}
           remaining_budget == RemainingBudget(token_budget, chain)
           remaining_slots == RemainingSlots(max_messages, chain)
       IN  /\ IF ShouldFetch(remaining_budget, remaining_slots)
              THEN \E candidates \in QueryRecent(message.chat_jid,
                                                 FetchLimit(remaining_slots)) :
                      /\ recent' = FillRecent(candidates, seen_ids, <<>>, 0,
                                              remaining_budget, remaining_slots)
                      /\ fetched' = TRUE
                      /\ fetched_rows' = candidates
              ELSE /\ recent' = <<>>
                   /\ fetched' = FALSE
                   /\ fetched_rows' = <<>>
           /\ combined' = Combine(chain, recent')
    /\ cpc' = "done"
    /\ UNCHANGED <<db, message, token_budget, max_messages, reply_chain, stored_during>>

\* build_context_window, which called with the default max_depth, goes on
\* with the chain returned (lines 65-113).
BuildAfterWalk ==
    /\ wpc = "returned"
    /\ walk_max_depth = _MAX_REPLY_CHAIN_DEPTH
    /\ BuildWith(reply_chain)
    /\ wpc' = "built"
    /\ UNCHANGED <<walk_max_depth, walk_current, walk_chain, walk_lookups, walk_raised>>
    /\ UNCHANGED notWalkVars

\* While the call awaits a lookup or the query, another delivery's
\* store_message (handler/__init__.py line 45) commits a row that was not
\* there when the call began.
StoreMessage(id) ==
    /\ wpc \in {"walking", "returned"}
    /\ id # message.message_id
    /\ ~db[id].stored
    /\ db' = [db EXCEPT ![id].stored = TRUE]
    /\ stored_during' = stored_during \cup {id}
    /\ UNCHANGED <<message, token_budget, max_messages, cpc, reply_chain, recent,
                   combined, fetched, fetched_rows>>
    /\ UNCHANGED walkVars
    /\ UNCHANGED notWalkVars

CtxNext ==
    \/ LookupReturns
    \/ LookupRaises
    \/ WalkEnds
    \/ BuildAfterWalk
    \/ \E id \in DOMAIN db : StoreMessage(id)

\* One step of the walk itself.
WalkStep ==
    \/ LookupReturns
    \/ LookupRaises
    \/ WalkEnds

(***************************************************************************)
(* The inputs of one build_context_window call. The triggering message is  *)
(* row 1: it is stored, it is the newest row, it has text (the router only *)
(* passes messages with text), and its chat is "g1". The other rows are in *)
(* its chat, in another chat, not stored at all (a reply_to_id naming them *)
(* dangles), or arriving: not stored yet, to be stored in its chat by      *)
(* another delivery.                                                       *)
(***************************************************************************)
Placements == {"g1", "g2", "absent", "arriving"}

\* The rows, from their attributes and placements.
Rows(ids, reply, ts, len, place) ==
    [id \in ids |->
        [message_id |-> id,
         reply_to_id |-> reply[id],
         timestamp |-> ts[id],
         textlen |-> len[id],
         chat_jid |-> IF place[id] \in {"absent", "g2"} THEN "g2" ELSE "g1",
         stored |-> place[id] \in {"g1", "g2"}]]

\* The ids the reply links lead to from id, id included.
LinkedFrom(id, reply) ==
    LET r1 == reply[id]
        r2 == IF r1 = 0 THEN 0 ELSE reply[r1]
    IN  {id, r1, r2}

\* The state at the call, the reply-chain walk about to begin.
CallBegins(max_depth) ==
    /\ cpc = "input"
    /\ reply_chain = <<>>
    /\ recent = <<>>
    /\ combined = <<>>
    /\ fetched = FALSE
    /\ fetched_rows = <<>>
    /\ stored_during = {}
    /\ wpc = "walking"
    /\ walk_max_depth = max_depth
    /\ walk_current = message
    /\ walk_chain = <<>>
    /\ walk_lookups = 0
    /\ walk_raised = FALSE

CtxInit ==
    /\ GuardOff
    /\ RouterOff
    /\ RenderOff
    /\ HandlerOff
    /\ SummarizeOff
    /\ \E reply \in [MsgIds -> {0} \cup MsgIds],
          ts \in [MsgIds -> 1..MaxTs],
          len \in [MsgIds -> TextLens],
          place \in [MsgIds -> Placements] :
            /\ place[1] = "g1"
            /\ ts[1] = MaxTs
            /\ len[1] # 0
            \* a row that is never stored has no attributes to vary; a row of
            \* another chat matters as an ancestor only, an arriving row as a
            \* parent or a candidate only
            /\ \A id \in MsgIds :
                  /\ place[id] = "absent" => reply[id] = 0 /\ ts[id] = 1 /\ len[id] = 0
                  /\ place[id] = "arriving" => reply[id] = 0
                  \* a row the reply links do not lead to from the triggering
                  \* message is a candidate of its chat at most
                  /\ id \notin LinkedFrom(1, reply) =>
                        reply[id] = 0 /\ place[id] # "g2"
            /\ db = Rows(MsgIds, reply, ts, len, place)
    /\ message = db[1]
    /\ token_budget \in 0..MaxBudget
    /\ max_messages \in 0..MaxSlots
    /\ CallBegins(_MAX_REPLY_CHAIN_DEPTH)

SpecCtx == CtxInit /\ [][CtxNext]_vars

(***************************************************************************)
(* The inputs of a build_context_window call that reaches the fill loop    *)
(* with several candidates of different costs: four rows, texts costing 0, *)
(* 1 and 2 tokens, a chain of at most one ancestor, the fourth row in the  *)
(* chat, in another chat or arriving.                                      *)
(***************************************************************************)
FillIds == {1, 2, 3, 4}
FillTextLens == {0, 4, 8}
MaxFillBudget == 3
MaxFillSlots == 3

FillInit ==
    /\ GuardOff
    /\ RouterOff
    /\ RenderOff
    /\ HandlerOff
    /\ SummarizeOff
    /\ \E parent \in {0, 2},
          ts \in [FillIds -> 1..MaxTs],
          len \in [FillIds -> FillTextLens],
          place4 \in {"g1", "g2", "arriving"} :
            /\ ts[1] = MaxTs
            /\ len[1] = 4
            /\ db = Rows(FillIds,
                         [id \in FillIds |-> IF id = 1 THEN parent ELSE 0],
                         ts, len,
                         [id \in FillIds |-> IF id = 4 THEN place4 ELSE "g1"])
    /\ message = db[1]
    /\ token_budget \in 1..MaxFillBudget
    /\ max_messages \in 1..MaxFillSlots
    /\ CallBegins(_MAX_REPLY_CHAIN_DEPTH)

SpecFill == FillInit /\ [][CtxNext]_vars

(***************************************************************************)
(* resolve_reply_chain (utils/context.py lines 18-41) called with several  *)
(* max_depth arguments, on every shape of the reply links.                 *)
(***************************************************************************)
WalkInit ==
    /\ GuardOff
    /\ RouterOff
    /\ RenderOff
    /\ HandlerOff
    /\ SummarizeOff
    /\ \E reply \in [MsgIds -> {0} \cup MsgIds], place \in [MsgIds -> Placements] :
          /\ place[1] = "g1"
          /\ \A id \in MsgIds : place[id] = "absent" => reply[id] = 0
          /\ db = Rows(MsgIds, reply, [id \in MsgIds |-> 1],
                       [id \in MsgIds |-> IF place[id] = "absent" THEN 0 ELSE 3],
                       place)
    /\ message = db[1]
    /\ token_budget = MaxBudget
    /\ max_messages = MaxSlots
    /\ \E max_depth \in MaxDepths : CallBegins(max_depth)

SpecWalk == WalkInit /\ [][CtxNext]_vars

\* Every awaited lookup eventually returns or raises, and the loop's own
\* statements run.
SpecWalkFair == SpecWalk /\ WF_vars(WalkStep)

(***************************************************************************)
(* Context window: properties of the returned list.                        *)
(***************************************************************************)
CtxDone == cpc = "done"

NoDuplicateIds(msgs) ==
    \A i, j \in 1..Len(msgs) : i # j => msgs[i].message_id # msgs[j].message_id

NonDecreasingTimestamps(msgs) ==
    \A i \in 1..(Len(msgs) - 1) : msgs[i].timestamp <= msgs[i + 1].timestamp

\* How many entries of msgs are the row m.
Count(m, msgs) == Cardinality({i \in 1..Len(msgs) : msgs[i] = m})

\* The two lists hold the same rows, as often.
SameRows(a, b) ==
    /\ Len(a) = Len(b)
    /\ \A i \in 1..Len(a) : Count(a[i], a) = Count(a[i], b)

\* Some entry with id x comes before some entry with id y.
Before(x, y, msgs) ==
    \E i, j \in 1..Len(msgs) :
        i < j /\ msgs[i].message_id = x /\ msgs[j].message_id = y

\* C3: the returned window has no two entries with the same message_id, has no
\* entry with the triggering message's id, and is sorted non-decreasing by
\* timestamp, for every storage content (reply_to cycles included).
C3_WindowDedupedExcludingTriggerSorted ==
    CtxDone =>
        /\ NoDuplicateIds(combined)
        /\ message.message_id \notin Ids(combined)
        /\ NonDecreasingTimestamps(combined)

\* The call ran on a database that did not change, and no lookup raised.
QuietCall == stored_during = {} /\ ~walk_raised

\* C4: every ancestor resolve_reply_chain returns is in the returned window (as
\* often as in the chain), whatever the budget and the slot limit; on a
\* database that does not change the chain is the ancestry of the message.
C4_ReplyChainAlwaysIncluded ==
    CtxDone =>
        /\ \A i \in 1..Len(reply_chain) :
              Count(reply_chain[i], combined) >= Count(reply_chain[i], reply_chain)
        /\ QuietCall => reply_chain = resolve_reply_chain(message)

\* C4 witness: a call whose chain alone exceeds both the budget and the slots.
C4_Witness ==
    /\ CtxDone
    /\ reply_chain # <<>>
    /\ _estimate_tokens(reply_chain) > token_budget
    /\ Len(reply_chain) > max_messages
    /\ max_messages > 0

\* The stored rows of the triggering message's chat that are neither the
\* triggering message nor in its reply chain.
OtherChatRows ==
    {id \in DOMAIN db :
        /\ db[id].stored
        /\ db[id].chat_jid = message.chat_jid
        /\ id # message.message_id
        /\ id \notin Ids(reply_chain)}

\* C5: with token_budget 0, or max_messages 0, or a chain that uses up the
\* budget or the slots, the call runs no recency query and returns exactly the
\* chain's rows; and with no chain and no other row in the chat it returns the
\* empty list.
C5_NoFillAtBoundary ==
    CtxDone =>
        LET chain == reply_chain
        IN  /\ (\/ token_budget = 0
                \/ max_messages = 0
                \/ _estimate_tokens(chain) >= token_budget
                \/ Len(chain) >= max_messages)
                  => (~fetched /\ recent = <<>> /\ SameRows(combined, chain))
            /\ (chain = <<>> /\ OtherChatRows = {}) => combined = <<>>

\* C5 witness: budget 0, slots left after a non-empty chain, and a row of the
\* chat that a recency fill would have taken.
C5_Witness ==
    /\ CtxDone
    /\ token_budget = 0
    /\ reply_chain # <<>>
    /\ max_messages > Len(reply_chain)
    /\ OtherChatRows # {}
    /\ combined = reply_chain

\* C6: whenever the chain's estimate is within token_budget, _estimate_tokens of
\* the whole returned window is within token_budget.
C6_WindowWithinTokenBudget ==
    (CtxDone /\ _estimate_tokens(reply_chain) <= token_budget)
        => _estimate_tokens(combined) <= token_budget

\* The scenario of C7: the triggering message B replies to the stored row A, A
\* replies to the stored row C, C has no resolvable parent (depth 2), the
\* budget and the slots admit both ancestors, and the lookups returned what
\* is stored.
ReplyDepthTwo(a, c) ==
    /\ QuietCall
    /\ message.reply_to_id = a
    /\ a # message.message_id
    /\ SessionGet(a) # NoMessage
    /\ db[a].reply_to_id = c
    /\ c \notin {a, message.message_id}
    /\ SessionGet(c) # NoMessage
    /\ (db[c].reply_to_id = 0 \/ SessionGet(db[c].reply_to_id) = NoMessage)
    /\ _estimate_tokens(<<db[c], db[a]>>) <= token_budget
    /\ 2 <= max_messages

\* C7 as stated: in that scenario the window lists C before A and not B,
\* whatever the timestamps.
C7_AncestryOrderWhateverTimestamps ==
    CtxDone =>
        \A a, c \in MsgIds :
            ReplyDepthTwo(a, c) =>
                /\ Before(c, a, combined)
                /\ ~Before(a, c, combined)
                /\ message.message_id \notin Ids(combined)

\* C7 amended: in that scenario the window never holds B; it lists C before A
\* when C's timestamp is not later than A's, and A before C when A's timestamp
\* is earlier than C's (the window is ordered by timestamp, ties by ancestry).
C7_AncestryOrderWhenTimestampsAgree ==
    CtxDone =>
        \A a, c \in MsgIds :
            ReplyDepthTwo(a, c) =>
                /\ message.message_id \notin Ids(combined)
                /\ db[c].timestamp <= db[a].timestamp
                      => (Before(c, a, combined) /\ ~Before(a, c, combined))
                /\ db[a].timestamp < db[c].timestamp
                      => (Before(a, c, combined) /\ ~Before(c, a, combined))

\* C7 witness: the scenario with equal timestamps on A and C.
C7_Witness ==
    /\ CtxDone
    /\ \E a, c \in MsgIds :
          /\ ReplyDepthTwo(a, c)
          /\ db[c].timestamp = db[a].timestamp
          /\ Before(c, a, combined)

(***************************************************************************)
(* handler/router.py: Router.__call__ and its strategies.                  *)
(* Every awaited call is one step that returns or raises. The reasoning    *)
(* backend, storage, retrieval and transport are outside the model: their  *)
(* answer is a nondeterministic choice.                                    *)
(***************************************************************************)
IntentEnum == {"summarize", "ask_question", "about", "other"}

\* A mutation of Dispatch: the `case IntentEnum.other` arm left out.
DispatchWithoutOther(i) ==
    CASE i = "summarize" -> "summarize"
      [] i = "ask_question" -> "ask_knowledge_base"
      [] i = "about" -> "about"
      [] OTHER -> "none"

\* A mutation of Dispatch: the `case IntentEnum.about` arm left out.
DispatchWithoutAbout(i) ==
    CASE i = "summarize" -> "summarize"
      [] i = "ask_question" -> "ask_knowledge_base"
      [] i = "other" -> "ask_knowledge_base"
      [] OTHER -> "none"

\* The match statement of Router.__call__ (lines 65-73).
Dispatch(i) ==
    CASE i = "summarize" -> "summarize"
      [] i = "ask_question" -> "ask_knowledge_base"
      [] i = "about" -> "about"
      [] i = "other" -> "ask_knowledge_base"
      [] OTHER -> "none"

\* A mutation of SummarizeSteps: one more awaited call after the reply was sent.
SummarizeStepsAwaitAfterSend ==
    <<"session.exec", "get_opt_out_map", "agent.run", "send_message", "session.exec">>

\* The awaited calls of every strategy, in program order.
\* Router.summarize (lines 117-150).
SummarizeSteps ==
    <<"session.exec", "get_opt_out_map", "agent.run", "send_message">>
\* Router.about (lines 152-168).
AboutSteps == <<"send_message">>
\* KnowledgeBaseAnswers.__call__ (lines 47-129).
KnowledgeBaseSteps(withCommunity) ==
    <<"get_my_jid", "build_context_window", "get_opt_out_map", "rephrasing_agent",
      "voyage_embed_text">>
    \o (IF withCommunity THEN <<"get_related_community_groups">> ELSE <<>>)
    \o <<"hybrid_search", "get_conversation_digest", "generation_agent",
         "send_message">>

StepsOf(s, withCommunity) ==
    CASE s = "summarize" -> SummarizeSteps
      [] s = "about" -> AboutSteps
      [] s = "ask_knowledge_base" -> KnowledgeBaseSteps(withCommunity)
      [] OTHER -> <<>>

\* The calls of the strategy entered, for the group of the message in hand.
Steps(s) == StepsOf(s, community)

\* A mutation of RetryWrapped: the decorator missing on rephrasing_agent.
RetryWrappedGenerationOnly == {"generation_agent"}

\* The calls wrapped in @retry(stop=stop_after_attempt(6), reraise=True).
RetryWrapped == {"rephrasing_agent", "generation_agent"}
StopAfterAttempt == 6

\* The calls that run the reasoning backend (Agent.run).
BackendSteps == {"agent.run", "rephrasing_agent", "generation_agent"}

\* What the strategy's send_message carries.
ReplyOf(s) ==
    CASE s = "summarize" -> "summary"
      [] s = "about" -> "about_text"
      [] OTHER -> "answer"

CurrentStep == Steps(strategy)[step]

\* BaseHandler.send_message over the outbound transport, after section 6:
\* `send(chat_id, text, in_reply_to?) -> ack | failure`; a failure surfaces
\* as an exception of the awaited call.
send_message_outcomes == {"ack", "failure"}

RouterInit ==
    /\ GuardOff
    /\ CtxOff
    /\ RenderOff
    /\ HandlerOff
    /\ SummarizeOff
    /\ WalkOff
    /\ rpc = "start"
    /\ rtext \in {"None", "", "text"}
    /\ community \in BOOLEAN
    /\ intent = "unset"
    /\ strategy = "none"
    /\ step = 0
    /\ attempts = 0
    /\ invoked = <<>>
    /\ backendCalls = 0
    /\ sent = <<>>
    /\ caught = FALSE
    /\ outcome = "running"

\* `if not message.text: return` (lines 60-61).
RouterStart ==
    /\ rpc = "start"
    /\ IF rtext \in {"None", ""}
       THEN rpc' = "done" /\ outcome' = "returned"
       ELSE rpc' = "route" /\ UNCHANGED outcome
    /\ UNCHANGED <<rtext, community, intent, strategy, step, attempts, invoked,
                   backendCalls, sent, caught>>
    /\ UNCHANGED notRouterVars

\* `route = await self._route(message.text)` returns i; the match statement
\* enters the strategy of i.
RouteReturns(i) ==
    /\ rpc = "route"
    /\ intent' = i
    /\ LET s == Dispatch(i)
       IN  IF s = "none"
           THEN /\ rpc' = "done"
                /\ outcome' = "returned"
                /\ UNCHANGED <<strategy, step, attempts, invoked>>
           ELSE /\ rpc' = "strategy"
                /\ strategy' = s
                /\ step' = 1
                /\ attempts' = 1
                /\ invoked' = Append(invoked, s)
                /\ UNCHANGED outcome
    /\ UNCHANGED <<rtext, community, backendCalls, sent, caught>>
    /\ UNCHANGED notRouterVars

\* `await self._route(message.text)` raises: the except branch is entered.
RouteRaises ==
    /\ rpc = "route"
    /\ rpc' = "except"
    /\ caught' = TRUE
    /\ UNCHANGED <<rtext, community, intent, strategy, step, attempts, invoked,
                   backendCalls, sent, outcome>>
    /\ UNCHANGED notRouterVars

\* The strategy's current awaited call returns.
StepReturns ==
    /\ rpc = "strategy"
    /\ backendCalls' = IF CurrentStep \in BackendSteps
                       THEN backendCalls + 1 ELSE backendCalls
    /\ sent' = IF CurrentStep = "send_message"
               THEN Append(sent, ReplyOf(strategy)) ELSE sent
    /\ IF step = Len(Steps(strategy))
       THEN /\ rpc' = "done"
            /\ outcome' = "returned"
            /\ UNCHANGED <<step, attempts>>
       ELSE /\ step' = step + 1
            /\ attempts' = 1
            /\ UNCHANGED <<rpc, outcome>>
    /\ UNCHANGED <<rtext, community, intent, strategy, invoked, caught>>
    /\ UNCHANGED notRouterVars

\* The strategy's current awaited call raises. A retry-wrapped call is tried
\* again until attempt 6 has failed; any other exception, and the re-raised
\* one, reaches the except branch of Router.__call__.
StepRaises ==
    /\ rpc = "strategy"
    /\ backendCalls' = IF CurrentStep \in BackendSteps
                       THEN backendCalls + 1 ELSE backendCalls
    /\ IF CurrentStep \in RetryWrapped /\ attempts < StopAfterAttempt
       THEN /\ attempts' = attempts + 1
            /\ UNCHANGED <<rpc, caught>>
       ELSE /\ rpc' = "except"
            /\ caught' = TRUE
            /\ UNCHANGED attempts
    /\ UNCHANGED <<rtext, community, intent, strategy, step, invoked, sent, outcome>>
    /\ UNCHANGED notRouterVars

\* The except branch (lines 74-79): the apology's send_message is acknowledged
\* and __call__ returns.
ApologyReturns ==
    /\ rpc = "except"
    /\ "ack" \in send_message_outcomes
    /\ sent' = Append(sent, "apology")
    /\ rpc' = "done"
    /\ outcome' = "returned"
    /\ UNCHANGED <<rtext, community, intent, strategy, step, attempts, invoked,
                   backendCalls, caught>>
    /\ UNCHANGED notRouterVars

\* The except branch: the apology's send_message raises; nothing catches it.
ApologyRaises ==
    /\ rpc = "except"
    /\ "failure" \in send_message_outcomes
    /\ rpc' = "done"
    /\ outcome' = "raised"
    /\ UNCHANGED <<rtext, community, intent, strategy, step, attempts, invoked,
                   backendCalls, sent, caught>>
    /\ UNCHANGED notRouterVars

RouterNext ==
    \/ RouterStart
    \/ \E i \in IntentEnum : RouteReturns(i)
    \/ RouteRaises
    \/ StepReturns
    \/ StepRaises
    \/ ApologyReturns
    \/ ApologyRaises

SpecRouter == RouterInit /\ [][RouterNext]_vars

\* Every awaited call of Router.__call__ eventually returns or raises.
SpecRouterFair == SpecRouter /\ WF_vars(RouterNext)

(***************************************************************************)
(* Router: properties.                                                     *)
(***************************************************************************)
CountOf(x, seq) == Cardinality({k \in 1..Len(seq) : seq[k] = x})

\* C8: for a message with text, when classification or the strategy raises,
\* Router.__call__ sends exactly one apology and returns; no exception ever
\* leaves Router.__call__.
C8_FailureContained ==
    /\ outcome # "raised"
    /\ (rtext = "text" /\ caught /\ rpc = "done")
          => (outcome = "returned" /\ CountOf("apology", sent) = 1)

\* C9: every classification outcome invokes exactly one strategy, once:
\* summarize the summarization, ask_question and other the knowledge lookup,
\* about the capability description with no backend call; and no strategy is
\* invoked before classification has returned.
C9_ExactlyOneStrategyPerIntent ==
    /\ Len(invoked) <= 1
    /\ intent = "unset" => invoked = <<>>
    /\ intent = "summarize" => invoked = <<"summarize">>
    /\ intent \in {"ask_question", "other"} => invoked = <<"ask_knowledge_base">>
    /\ intent = "about" =>
          /\ invoked = <<"about">>
          /\ backendCalls = 0
          /\ \A k \in 1..Len(sent) : sent[k] \in {"about_text", "apology"}
          /\ (outcome = "returned" /\ ~caught) => sent = <<"about_text">>

\* C9 witness: a message classified `other` answered by the knowledge lookup.
C9_Witness ==
    /\ outcome = "returned"
    /\ intent = "other"
    /\ invoked = <<"ask_knowledge_base">>
    /\ sent = <<"answer">>
    /\ backendCalls = 2

(***************************************************************************)
(* utils/chat_text.py: chat2text and render_reactions, and the callers     *)
(* that build the map they render with (Router.summarize,                  *)
(* KnowledgeBaseAnswers.__call__).                                         *)
(* A jid is [user, server]; parse_jid(jid).user is its user part. A        *)
(* message is [sender_jid, timestamp, text, reactions], reactions being    *)
(* the emojis in stored order.                                             *)
(***************************************************************************)
Jid(u, srv) == [user |-> u, server |-> srv]
NoJid == Jid("", "")
BotJid == Jid("999", "s.whatsapp.net")
\* The participants: two accounts on the phone-number server, one of them
\* also seen under its @lid address.
ParticipantJids ==
    {Jid("111", "s.whatsapp.net"), Jid("111", "lid"), Jid("222", "s.whatsapp.net")}
Jids == ParticipantJids \cup {BotJid}
Users == {j.user : j \in Jids}

\* The label get_opt_out_map gives an opted-out participant, and a second
\* label for maps built elsewhere.
AnonLabel == "Anonymous"
Labels == {AnonLabel, "Someone"}

\* The reactions a rendered message may carry.
ReactionLists ==
    {<<>>, <<"thumbs-up", "thumbs-down">>,
     <<"thumbs-up", "thumbs-down", "thumbs-up", "thumbs-up">>}

\* whatsapp.jid.parse_jid(jid).user
ParseJidUser(jid) == jid.user

\* f"@{sender_user}"
Handle(user) == "@" \o user

\* One decimal digit.
Digit(d) ==
    CASE d = 0 -> "0" [] d = 1 -> "1" [] d = 2 -> "2" [] d = 3 -> "3"
      [] d = 4 -> "4" [] d = 5 -> "5" [] d = 6 -> "6" [] d = 7 -> "7"
      [] d = 8 -> "8" [] OTHER -> "9"

\* f"{count}": the count in decimal (counts are positive).
RECURSIVE Str(_)
Str(n) == IF n < 10 THEN Digit(n) ELSE Str(n \div 10) \o Digit(n % 10)

\* ', '.join(parts)
RECURSIVE JoinComma(_)
JoinComma(parts) ==
    IF parts = <<>> THEN ""
    ELSE IF Len(parts) = 1 THEN parts[1]
    ELSE parts[1] \o ", " \o JoinComma(Tail(parts))

\* The keys of Counter(r.emoji for r in reactions): first occurrences, in order.
RECURSIVE CounterKeys(_, _)
CounterKeys(emojis, keys) ==
    IF emojis = <<>> THEN keys
    ELSE IF \E k \in 1..Len(keys) : keys[k] = Head(emojis)
         THEN CounterKeys(Tail(emojis), keys)
         ELSE CounterKeys(Tail(emojis), Append(keys, Head(emojis)))

CounterCount(emojis, e) == Cardinality({k \in 1..Len(emojis) : emojis[k] = e})

\* A mutation of render_reactions: the all-ones case left out, counts always shown.
render_reactions_always_counted(reactions) ==
    IF reactions = <<>> THEN ""
    ELSE LET keys == CounterKeys(reactions, <<>>)
         IN  "Reactions: " \o
             JoinComma([k \in 1..Len(keys) |->
                 keys[k] \o " " \o Str(CounterCount(reactions, keys[k]))])

\* render_reactions(reactions) (lines 11-21).
render_reactions(reactions) ==
    IF reactions = <<>> THEN ""
    ELSE LET keys == CounterKeys(reactions, <<>>)
         IN  IF \A k \in 1..Len(keys) : CounterCount(reactions, keys[k]) = 1
             THEN "Reactions: " \o JoinComma(keys)
             ELSE "Reactions: " \o
                  JoinComma([k \in 1..Len(keys) |->
                      keys[k] \o " " \o Str(CounterCount(reactions, keys[k]))])

\* A mutation of SenderDisplay: the map is never consulted, every sender other
\* than the bot is shown by handle.
SenderDisplayWithoutMap(sender_user, bot_user, map) ==
    IF bot_user # "" /\ sender_user = bot_user THEN "[Bot]"
    ELSE Handle(sender_user)

\* The sender_display of chat2text (lines 45-50).
SenderDisplay(sender_user, bot_user, map) ==
    IF bot_user # "" /\ sender_user = bot_user THEN "[Bot]"
    ELSE IF sender_user \in DOMAIN map THEN map[sender_user]
    ELSE Handle(sender_user)

\* chat2text(history, opt_out_map, bot_jid): one line per message, in input
\* order; a line is the f-string's fields, reaction_text "" when it has none.
chat2text(hist, map, bot_jid) ==
    LET bot_user == IF bot_jid = NoJid THEN "" ELSE ParseJidUser(bot_jid)
    IN  [i \in 1..Len(hist) |->
            [timestamp |-> hist[i].timestamp,
             sender_display |-> SenderDisplay(ParseJidUser(hist[i].sender_jid),
                                              bot_user, map),
             text |-> hist[i].text,
             reaction_text |-> render_reactions(hist[i].reactions)]]

\* utils.opt_out.get_opt_out_map(session, jids), after section 4.5 and
\* chat2text's docstring: an entry, keyed by user part, for every passed jid
\* that has an OptOut row; its value is the anonymized label.
get_opt_out_map(jids) ==
    LET users == {ParseJidUser(j) : j \in jids \cap optOutStore}
    IN  [u \in users |-> AnonLabel]

\* all_jids = {m.sender_jid for m in messages}; all_jids.add(message.sender_jid)
AllJids(hist, sender) == {hist[i].sender_jid : i \in 1..Len(hist)} \cup {sender}

\* opt_out_map.get(sender_user, f"@{sender_user}")
MapGet(map, user) == IF user \in DOMAIN map THEN map[user] ELSE Handle(user)

Histories ==
    UNION {[1..n -> [sender_jid : Jids, timestamp : {1}, text : {"hi"},
                     reactions : ReactionLists]] : n \in 0..MaxHistory}

RenderInit ==
    /\ GuardOff
    /\ CtxOff
    /\ RouterOff
    /\ HandlerOff
    /\ SummarizeOff
    /\ WalkOff
    /\ history \in Histories
    /\ asker \in ParticipantJids
    /\ optOutStore \in SUBSET ParticipantJids
    /\ tpc = "input"
    /\ renderedBy = "none"
    /\ all_jids = {}
    /\ opt_out_map = <<>>
    /\ bot_arg = NoJid
    /\ transcript = <<>>
    /\ asker_display = ""

\* Router.summarize, lines 129-145: the map over the slice's senders and the
\* asker, and chat2text(list(messages), opt_out_map) without a bot_jid.
SummarizeRenders ==
    /\ tpc = "input"
    /\ LET jids == AllJids(history, asker)
           map == get_opt_out_map(jids)
       IN  /\ all_jids' = jids
           /\ opt_out_map' = map
           /\ bot_arg' = NoJid
           /\ asker_display' = MapGet(map, ParseJidUser(asker))
           /\ transcript' = chat2text(history, map, NoJid)
    /\ renderedBy' = "summarize"
    /\ tpc' = "done"
    /\ UNCHANGED <<history, asker, optOutStore>>
    /\ UNCHANGED notRenderVars

\* KnowledgeBaseAnswers.__call__, lines 59-66, with rephrasing_agent (lines
\* 205-220): the map is read once, and the rephrasing prompt is rendered with
\* it, chat2text(history, opt_out_map, bot_jid), before the next await.
KnowledgeBaseRenders ==
    /\ tpc = "input"
    /\ LET jids == AllJids(history, asker)
           map == get_opt_out_map(jids)
       IN  /\ all_jids' = jids
           /\ opt_out_map' = map
           /\ bot_arg' = BotJid
           /\ asker_display' = MapGet(map, ParseJidUser(asker))
           /\ transcript' = chat2text(history, map, BotJid)
    /\ renderedBy' = "ask_knowledge_base"
    /\ tpc' = "awaiting"
    /\ UNCHANGED <<history, asker, optOutStore>>
    /\ UNCHANGED notRenderVars

\* While the caller is suspended, another delivery's handle_opt_out or
\* handle_opt_in writes the OptOut table: KnowledgeBaseAnswers.__call__ in
\* get_opt_out_map (line 62, "input": the history in hand, the map not read
\* yet) and in the rephrasing backend, the embedding, the search and the
\* digest (lines 64-104, "awaiting"); Router.summarize in its query and in
\* get_opt_out_map (router.py lines 126 and 132).
OptOutStoreChanges(jid) ==
    /\ tpc \in {"input", "awaiting", "session.exec", "get_opt_out_map"}
    /\ optOutStore' = IF jid \in optOutStore THEN optOutStore \ {jid}
                      ELSE optOutStore \cup {jid}
    /\ UNCHANGED <<history, asker, tpc, renderedBy, all_jids, opt_out_map, bot_arg,
                   transcript, asker_display>>
    /\ UNCHANGED notRenderVars

\* Lines 109-112 with generation_agent (lines 165-197): the generation prompt
\* is rendered with the map read at line 62, whatever the table holds now.
KnowledgeBaseGenerates ==
    /\ tpc = "awaiting"
    /\ asker_display' = MapGet(opt_out_map, ParseJidUser(asker))
    /\ transcript' = chat2text(history, opt_out_map, BotJid)
    /\ tpc' = "done"
    /\ UNCHANGED <<history, asker, optOutStore, renderedBy, all_jids, opt_out_map,
                   bot_arg>>
    /\ UNCHANGED notRenderVars

\* chat2text called with any map of anonymized labels and any bot_jid.
AnyMapRenders(map, bot) ==
    /\ tpc = "input"
    /\ all_jids' = {}
    /\ opt_out_map' = map
    /\ bot_arg' = bot
    /\ asker_display' = MapGet(map, ParseJidUser(asker))
    /\ transcript' = chat2text(history, map, bot)
    /\ renderedBy' = "any"
    /\ tpc' = "done"
    /\ UNCHANGED <<history, asker, optOutStore>>
    /\ UNCHANGED notRenderVars

RedactionMaps == UNION {[S -> Labels] : S \in SUBSET Users}

RenderNext ==
    \/ SummarizeRenders
    \/ KnowledgeBaseRenders
    \/ \E jid \in ParticipantJids : OptOutStoreChanges(jid)
    \/ KnowledgeBaseGenerates
    \/ \E map \in RedactionMaps, bot \in {NoJid, BotJid} : AnyMapRenders(map, bot)

SpecRender == RenderInit /\ [][RenderNext]_vars

(***************************************************************************)
(* Rendering: properties.                                                  *)
(***************************************************************************)
\* A transcript has been rendered.
Rendered == tpc \in {"awaiting", "done"}

\* C10: chat2text renders every message whose sender, other than the bot, has
\* an entry in the redaction map with that entry's label, the same label on
\* every line of that sender, never with the raw "@" handle; and the map a
\* strategy passes is built over every sender of the rendered slice and the
\* asker, every one of them that has an OptOut row when the map is read
\* getting the anonymized label.
C10_RedactionConsistent ==
    /\ [](Rendered =>
        /\ Len(transcript) = Len(history)
        /\ \A i \in 1..Len(history) :
              LET u == ParseJidUser(history[i].sender_jid)
              IN  (u # ParseJidUser(BotJid) /\ u \in DOMAIN opt_out_map)
                     => /\ transcript[i].sender_display = opt_out_map[u]
                        /\ transcript[i].sender_display # Handle(u)
                        /\ \A j \in 1..Len(history) :
                              history[j].sender_jid = history[i].sender_jid
                                 => transcript[j].sender_display
                                      = transcript[i].sender_display
        /\ renderedBy \in {"summarize", "ask_knowledge_base"} =>
              /\ asker \in all_jids
              /\ \A i \in 1..Len(history) : history[i].sender_jid \in all_jids)
    /\ [][(tpc = "input" /\ renderedBy' \in {"summarize", "ask_knowledge_base"}) =>
             /\ \A i \in 1..Len(history) :
                   history[i].sender_jid \in optOutStore
                      => transcript'[i].sender_display = AnonLabel
             /\ asker \in optOutStore => asker_display' = AnonLabel]_vars

\* C10 witness: a strategy rendered two messages of one opted-out sender, both
\* under the anonymized label, next to a sender that is not opted out.
C10_Witness ==
    /\ tpc = "done"
    /\ renderedBy = "summarize"
    /\ Len(history) = 2
    /\ history[1].sender_jid = history[2].sender_jid
    /\ history[1].sender_jid \in optOutStore
    /\ asker \notin optOutStore
    /\ transcript[1].sender_display = AnonLabel
    /\ transcript[2].sender_display = AnonLabel
    /\ asker_display = Handle(ParseJidUser(asker))

\* The emojis of a reaction list are pairwise different.
AllDifferent(reactions) ==
    \A a, b \in 1..Len(reactions) : reactions[a] = reactions[b] => a = b

\* C11: a line's reaction annotation is empty for a message without reactions;
\* lists the bare emojis, in stored order, when every emoji occurs once (one
\* thumbs-up and one thumbs-down give "thumbs-up, thumbs-down"); and gives
\* every emoji with its count when some emoji occurs more than once (three
\* thumbs-up and one thumbs-down give "thumbs-up 3, thumbs-down 1").
C11_ReactionRendering ==
    Rendered =>
        \A i \in 1..Len(history) :
            LET r == history[i].reactions
                text == transcript[i].reaction_text
            IN  /\ r = <<>> <=> text = ""
                /\ (r # <<>> /\ AllDifferent(r)) =>
                      text = "Reactions: " \o JoinComma(r)
                /\ r = <<"thumbs-up", "thumbs-down">> =>
                      text = "Reactions: thumbs-up, thumbs-down"
                /\ r = <<"thumbs-up", "thumbs-down", "thumbs-up", "thumbs-up">> =>
                      text = "Reactions: thumbs-up 3, thumbs-down 1"

\* C11 witness: one transcript with a bare list on its first line and counted
\* pairs on its second.
C11_Witness ==
    /\ tpc = "done"
    /\ Len(transcript) = 2
    /\ transcript[1].reaction_text = "Reactions: thumbs-up, thumbs-down"
    /\ transcript[2].reaction_text = "Reactions: thumbs-up 3, thumbs-down 1"

(***************************************************************************)
(* Router: retry properties.                                               *)
(***************************************************************************)
\* A retry-wrapped call of the knowledge lookup is being attempted.
RetriedCallInFlight ==
    /\ rpc = "strategy"
    /\ CurrentStep \in {"rephrasing_agent", "generation_agent"}

\* C12: rephrasing_agent and generation_agent are attempted at most 6 times
\* each; an attempt that succeeds ends the call and the strategy moves on; a
\* failure before the 6th attempt is followed by another attempt of the same
\* call; the failure of the 6th attempt is re-raised and reaches the except
\* branch of Router.__call__, which sends the apology.
C12_BoundedRetry ==
    [][ /\ attempts <= StopAfterAttempt
        /\ RetriedCallInFlight =>
              \/ /\ backendCalls' = backendCalls + 1
                 /\ rpc' = "strategy"
                 /\ step' = step + 1
                 /\ attempts' = 1
                 /\ ~caught'
              \/ /\ backendCalls' = backendCalls + 1
                 /\ attempts < StopAfterAttempt
                 /\ rpc' = "strategy"
                 /\ step' = step
                 /\ attempts' = attempts + 1
                 /\ ~caught'
              \/ /\ backendCalls' = backendCalls + 1
                 /\ attempts = StopAfterAttempt
                 /\ rpc' = "except"
                 /\ caught'
                 /\ sent' = sent
      ]_vars

\* C12 witness: rephrasing succeeded at its first attempt, generation failed
\* six times, and the router has sent the apology.
C12_Witness ==
    /\ rpc = "done"
    /\ strategy = "ask_knowledge_base"
    /\ CurrentStep = "generation_agent"
    /\ attempts = StopAfterAttempt
    /\ backendCalls = 1 + StopAfterAttempt
    /\ caught
    /\ sent = <<"apology">>

\* A reasoning-backend call is being attempted for the first time:
\* classification, or a strategy's call at its first attempt.
FirstBackendAttemptInFlight ==
    \/ rpc = "route"
    \/ /\ rpc = "strategy"
       /\ CurrentStep \in BackendSteps
       /\ attempts = 1

\* C13: the first failed attempt of any reasoning-backend call
\* (classification, summarization, reformulation, generation) is retried: it
\* never takes Router.__call__ to the except branch and the apology.
C13_EveryBackendCallRetried ==
    [][FirstBackendAttemptInFlight => rpc' # "except"]_vars

(***************************************************************************)
(* MessageHandler.__call__ (handler/__init__.py lines 44-152) for group    *)
(* messages. The event loop runs one task per delivery; a task runs from   *)
(* one await to the next without interruption and is suspended in the call *)
(* it awaits, while the other task runs and the timer goes on. A task's    *)
(* journal lists the calls it made, the last being the one it is suspended *)
(* in; its outbox lists what it handed to send_message, a send that fails  *)
(* included. The helpers of the mentioned block and the handlers at the    *)
(* end of a path are calls of the journal; the awaits inside them touch    *)
(* nothing the tasks share. A behaviour has the deliveries of one message, *)
(* a redelivery repeating its payload; deliveries of different messages    *)
(* meet in the cache only when it is full, which SpecGuard has. The direct *)
(* messages are in SpecDm.                                                 *)
(***************************************************************************)
\* The tasks of the event loop that run MessageHandler.__call__ at one time.
HandlerTasks == {1, 2}

\* The index of the first x in seq, 0 when there is none.
Pos(x, seq) ==
    IF \E k \in 1..Len(seq) : seq[k] = x
    THEN CHOOSE k \in 1..Len(seq) : seq[k] = x /\ \A j \in 1..(k - 1) : seq[j] # x
    ELSE 0

Has(x, seq) == Pos(x, seq) > 0

\* x and y both occur in seq, x first.
Precedes(x, y, seq) == Has(x, seq) /\ Has(y, seq) /\ Pos(x, seq) < Pos(y, seq)

\* The last element of a sequence that has one.
Last(seq) == seq[Len(seq)]

Senders == {"p1@s.whatsapp.net", "p2@s.whatsapp.net"}
\* The message_id of the message that is delivered and redelivered; 0 stands
\* for an empty message_id, which `if message and message.message_id` lets by.
DeliveredIds == {0, 1}
MediaKinds == {"none", "audio", "image"}
\* message.text of a group message as delivered; "None" stands for None.
Texts == {"None", "", "hello", "/kb_qa q", "join https://chat.whatsapp.com/x"}
\* message.text of a direct message as delivered.
DmTexts == {"None", "opt-out", " Opt-Out ", "opt-in", "status", "hello"}

\* bool(message.text)
HasText(text) == text \notin {"None", ""}

\* message.text.strip().lower()
Command(text) == IF text = " Opt-Out " THEN "opt-out" ELSE text

\* message.text.startswith("/kb_qa ")
StartsWithKbQa(text) == text = "/kb_qa q"

\* "https://chat.whatsapp.com/" in message.text
HasGroupLink(text) == text = "join https://chat.whatsapp.com/x"

\* A mutation of KbQaAuthorized: the tester check left out.
KbQaAuthorizedGroupOnly(in_qa_test_groups, in_qa_testers) == in_qa_test_groups

\* Lines 99-107: the chat is in settings.qa_test_groups and the sender in
\* settings.qa_testers.
KbQaAuthorized(in_qa_test_groups, in_qa_testers) ==
    in_qa_test_groups /\ in_qa_testers

\* KnowledgeBaseAnswers.__call__ returns at once for text None (lines 49-51);
\* the other strategies make their calls whatever the text.
StrategyTrace(s, text, withCommunity) ==
    IF s = "ask_knowledge_base" /\ text = "None" THEN <<>>
    ELSE StepsOf(s, withCommunity)

\* A mutation of RouterTrace: the context window built before classification.
RouterTraceContextFirst(text, i, withCommunity) ==
    IF ~HasText(text) THEN <<>>
    ELSE <<"build_context_window", "_route", Dispatch(i)>>

\* A mutation of RouterTrace: the text check of Router.__call__ left out.
RouterTraceUnchecked(text, i, withCommunity) ==
    <<"_route", Dispatch(i)>> \o StrategyTrace(Dispatch(i), text, withCommunity)

\* The calls of Router.__call__ (lines 59-73) when _route returns i and no
\* call raises: nothing without text, else the classification, the strategy
\* and the strategy's calls, in a group with or without community keys.
RouterTrace(text, i, withCommunity) ==
    IF ~HasText(text) THEN <<>>
    ELSE <<"_route", Dispatch(i)>> \o StrategyTrace(Dispatch(i), text, withCommunity)

\* BaseHandler.upsert of an OptOut row, after section 3 ("keyed by participant
\* identifier"): the row is inserted, or replaces the row of the same jid.
Upsert(records, jid) == [records EXCEPT ![jid] = 1]

\* session.delete and session.commit of the row found for jid: DELETE by
\* primary key, which removes the row of that jid if there still is one.
Delete(records, jid) == [records EXCEPT ![jid] = 0]

\* The OptOut table after the write of handle_opt_out / handle_opt_in
\* (lines 252-277), `found` being what session.get returned before: upsert
\* adds the row when none was found, delete and commit remove the row found;
\* handle_opt_status (lines 279-288) writes nothing.
OptOutAfter(records, jid, command, found) ==
    CASE command = "opt-out" /\ ~found -> Upsert(records, jid)
      [] command = "opt-in" /\ found -> Delete(records, jid)
      [] OTHER -> records

\* Whether the handler of the command writes after its lookup.
Writes(command, found) ==
    \/ command = "opt-out" /\ ~found
    \/ command = "opt-in" /\ found

\* What the three handlers hand to send_message.
OptOutReply(found, command) ==
    CASE command = "opt-out" ->
            IF ~found
            THEN "You have been opted out. You will no longer be tagged in summaries and answers."
            ELSE "You are already opted out."
      [] command = "opt-in" ->
            IF found
            THEN "You have been opted in. You will now be tagged in summaries and answers."
            ELSE "You are already opted in."
      [] OTHER ->
            IF found THEN "You are currently opted out."
            ELSE "You are currently opted in."

OptCommands == {"opt-out", "opt-in", "status"}

\* What the except branch of the try block the task is in hands to
\* send_message: Router.__call__ (lines 76-79) or Router.analyze_image
\* (lines 112-115).
ApologyOf(j) == IF Has("analyze_image", j) THEN "image_apology" ELSE "apology"

\* The strategy Router.__call__ dispatched to, as the journal has it.
StrategyOf(j) == j[Pos("_route", j) + 1]

\* What a send_message inside the try block can be handed: the analysis or,
\* when it gave nothing, the fixed "could not analyze" text (lines 103-109);
\* the reply of the strategy.
ReplyTexts(j) ==
    IF Has("analyze_image", j) THEN {"image_answer", "image_not_analyzed"}
    ELSE {ReplyOf(StrategyOf(j))}

\* The messages delivered, one per class the handler tells apart: the media
\* kind matters to messages without text only, the whitelists to /kb_qa only;
\* one message with text replies to another; a message without a message_id
\* differs from the others at the guard only.
MediaOf(text) ==
    IF HasText(text) \/ text = "" THEN {"none"} ELSE MediaKinds
WhitelistFlagsOf(text) == IF StartsWithKbQa(text) THEN BOOLEAN ELSE {FALSE}
RepliesOf(text) == IF text = "hello" THEN BOOLEAN ELSE {FALSE}

Payloads ==
    {[message_id |-> m, chat |-> "group", text |-> text, media |-> media,
      reply_to_id |-> reply_to_id,
      in_qa_test_groups |-> in_groups, in_qa_testers |-> in_testers] :
        m \in DeliveredIds, text \in Texts, media \in MediaKinds,
        reply_to_id \in BOOLEAN, in_groups \in BOOLEAN, in_testers \in BOOLEAN}

\* The message of a behaviour.
Delivered(p) ==
    /\ p.media \in MediaOf(p.text)
    /\ p.reply_to_id \in RepliesOf(p.text)
    /\ p.message_id = 0 => (p.text = "hello" /\ ~p.reply_to_id)
    /\ p.in_qa_test_groups \in WhitelistFlagsOf(p.text)
    /\ p.in_qa_testers \in WhitelistFlagsOf(p.text)

NoInbound == [message_id |-> 0]
NeverAdmitted == 0 - 1

HandlerInit ==
    /\ GuardOff
    /\ CtxOff
    /\ RouterOff
    /\ RenderOff
    /\ SummarizeOff
    /\ WalkOff
    /\ payload \in {p \in Payloads : Delivered(p)}
    /\ inbound = [t \in HandlerTasks |-> NoInbound]
    /\ hpc = [t \in HandlerTasks |-> "idle"]
    /\ journal = [t \in HandlerTasks |-> <<>>]
    /\ outbox = [t \in HandlerTasks |-> <<>>]
    /\ todo = [t \in HandlerTasks |-> <<>>]
    /\ DmOff
    /\ dm_autoreply_enabled = FALSE
    /\ optOutRecords = <<>>
    /\ lastCommand = <<>>
    /\ admittedAt = [m \in DeliveredIds |-> NeverAdmitted]

\* Task t runs on to position p, having made the calls and handed the texts
\* to send_message; the calls of the try block still ahead are `ahead`.
Goes(t, p, calls, texts, ahead) ==
    /\ hpc' = [hpc EXCEPT ![t] = p]
    /\ journal' = [journal EXCEPT ![t] = @ \o calls]
    /\ outbox' = [outbox EXCEPT ![t] = @ \o texts]
    /\ todo' = [todo EXCEPT ![t] = ahead]

\* The event loop starts a task for a delivery; the tasks are alike, the
\* delivery takes the first that is free.
FreeTask(t) ==
    /\ hpc[t] = "idle"
    /\ \A u \in HandlerTasks : u < t => hpc[u] # "idle"

\* Line 45: __call__ is called with the payload and awaits store_message.
Deliver(t) ==
    /\ FreeTask(t)
    /\ inbound' = [inbound EXCEPT ![t] = payload]
    /\ Goes(t, "store_message", <<"store_message">>, <<>>, <<>>)
    /\ UNCHANGED <<payload, admittedAt>>
    /\ UNCHANGED <<now, _processing_cache>>
    /\ UNCHANGED notHandlerVars

\* Lines 45-51: store_message returns the stored message, or nothing and
\* __call__ returns; then get_my_jid is awaited.
StoreMessageReturns(t, stored) ==
    /\ hpc[t] = "store_message"
    /\ IF stored
       THEN Goes(t, "get_my_jid", <<"get_my_jid">>, <<>>, <<>>)
       ELSE Goes(t, "done", <<>>, <<>>, <<>>)
    /\ UNCHANGED <<payload, inbound, admittedAt>>
    /\ UNCHANGED <<now, _processing_cache>>
    /\ UNCHANGED notHandlerVars

\* Lines 51-57: get_my_jid returns; the bot's own messages and messages with
\* neither text nor media are ignored, the others go to the guard.
GetMyJidReturns(t, from_bot) ==
    /\ hpc[t] = "get_my_jid"
    /\ IF from_bot \/ (~HasText(inbound[t].text) /\ inbound[t].media = "none")
       THEN Goes(t, "done", <<>>, <<>>, <<>>)
       ELSE Goes(t, "guard", <<>>, <<>>, <<>>)
    /\ UNCHANGED <<payload, inbound, admittedAt>>
    /\ UNCHANGED <<now, _processing_cache>>
    /\ UNCHANGED notHandlerVars

\* Lines 86-94: the dedup guard, check and insert under the lock, with no
\* await between them.
Guard(t) ==
    /\ hpc[t] = "guard"
    /\ LET m == inbound[t].message_id
       IN  IF m = 0
           THEN /\ Goes(t, "kb_qa", <<>>, <<>>, <<>>)
                /\ UNCHANGED <<_processing_cache, admittedAt>>
           ELSE IF CacheContains(_processing_cache, m, now)
           THEN /\ Goes(t, "done", <<"guard_skip">>, <<>>, <<>>)
                /\ UNCHANGED <<_processing_cache, admittedAt>>
           ELSE /\ _processing_cache' = CacheSet(_processing_cache, m, now)
                /\ admittedAt' = [admittedAt EXCEPT ![m] = now]
                /\ Goes(t, "kb_qa", <<"guard_admit">>, <<>>, <<>>)
    /\ UNCHANGED <<payload, inbound>>
    /\ UNCHANGED now
    /\ UNCHANGED notHandlerVars

\* Lines 96-110: the /kb_qa command. An unauthorized one returns silently,
\* an authorized one awaits the KB-QA handler.
KbQa(t) ==
    /\ hpc[t] = "kb_qa"
    /\ IF HasText(inbound[t].text) /\ StartsWithKbQa(inbound[t].text)
       THEN IF KbQaAuthorized(inbound[t].in_qa_test_groups, inbound[t].in_qa_testers)
            THEN Goes(t, "kb_qa_handler", <<"kb_qa_handler">>, <<>>, <<>>)
            ELSE Goes(t, "done", <<>>, <<>>, <<>>)
       ELSE Goes(t, "managed", <<>>, <<>>, <<>>)
    /\ UNCHANGED <<payload, inbound, admittedAt>>
    /\ UNCHANGED <<now, _processing_cache>>
    /\ UNCHANGED notHandlerVars

\* Lines 112-120: messages of unmanaged groups are ignored; then the mention
\* check; a message that does not tag the bot and replies to a message awaits
\* the lookup of the message replied to.
MentionCheck(t, managed, mentioned) ==
    /\ hpc[t] = "managed"
    /\ IF ~managed THEN Goes(t, "done", <<>>, <<>>, <<>>)
       ELSE IF mentioned THEN Goes(t, "mentioned", <<"has_mentioned">>, <<>>, <<>>)
       ELSE IF inbound[t].reply_to_id
       THEN Goes(t, "session.get", <<"has_mentioned", "session.get">>, <<>>, <<>>)
       ELSE Goes(t, "spam", <<"has_mentioned">>, <<>>, <<>>)
    /\ UNCHANGED <<payload, inbound, admittedAt>>
    /\ UNCHANGED <<now, _processing_cache>>
    /\ UNCHANGED notHandlerVars

\* Lines 120-122: the lookup returns; a reply to a message of the bot counts
\* as a mention, a reply to someone else's or to a message not stored does not.
RepliedMessageReturns(t, replied_to_bot) ==
    /\ hpc[t] = "session.get"
    /\ Goes(t, IF replied_to_bot THEN "mentioned" ELSE "spam", <<>>, <<>>, <<>>)
    /\ UNCHANGED <<payload, inbound, admittedAt>>
    /\ UNCHANGED <<now, _processing_cache>>
    /\ UNCHANGED notHandlerVars

\* message.text after _enrich_with_replied_audio (lines 180-209).
EnrichedText(text, replied_audio_transcribed) ==
    IF replied_audio_transcribed THEN "[voice] " \o (IF HasText(text) THEN text ELSE "")
    ELSE text

\* message.text after _try_transcribe_voice (lines 154-178).
TranscribedText(text, media, transcribed) ==
    IF ~HasText(text) /\ media = "audio" /\ transcribed THEN "transcription"
    ELSE text

\* Lines 124-126: a mentioned message awaits _enrich_with_replied_audio.
Mentioned(t) ==
    /\ hpc[t] = "mentioned"
    /\ Goes(t, "_enrich_with_replied_audio", <<"_enrich_with_replied_audio">>,
            <<>>, <<>>)
    /\ UNCHANGED <<payload, inbound, admittedAt>>
    /\ UNCHANGED <<now, _processing_cache>>
    /\ UNCHANGED notHandlerVars

\* Lines 126-129: the enrichment returns, with the transcription of the voice
\* message replied to when there is one (line 182 returns the message as it
\* is when it replies to nothing); then _try_get_image is awaited.
EnrichReturns(t, replied_audio_transcribed) ==
    /\ hpc[t] = "_enrich_with_replied_audio"
    /\ replied_audio_transcribed => inbound[t].reply_to_id
    /\ inbound' = [inbound EXCEPT
          ![t].text = EnrichedText(@, replied_audio_transcribed)]
    /\ Goes(t, "_try_get_image", <<"_try_get_image">>, <<>>, <<>>)
    /\ UNCHANGED <<payload, admittedAt>>
    /\ UNCHANGED <<now, _processing_cache>>
    /\ UNCHANGED notHandlerVars

\* Lines 129-137: _try_get_image returns an image, of the message or of the
\* message replied to (lines 214-225), and Router.analyze_image awaits the
\* analysis inside its try block; or it returns nothing and
\* _try_transcribe_voice is awaited.
TryGetImageReturns(t, image_found) ==
    /\ hpc[t] = "_try_get_image"
    /\ image_found => (inbound[t].media = "image" \/ inbound[t].reply_to_id)
    /\ IF image_found
       THEN Goes(t, "try", <<"analyze_image">>, <<>>, <<"send_message">>)
       ELSE Goes(t, "_try_transcribe_voice", <<"_try_transcribe_voice">>, <<>>, <<>>)
    /\ UNCHANGED <<payload, inbound, admittedAt>>
    /\ UNCHANGED <<now, _processing_cache>>
    /\ UNCHANGED notHandlerVars

\* Lines 137-142 and router.py lines 59-64: _try_transcribe_voice returns; a
\* message still without text is dropped, the others go to Router.__call__,
\* which awaits the classification inside its try block.
TryTranscribeVoiceReturns(t, transcribed) ==
    /\ hpc[t] = "_try_transcribe_voice"
    /\ LET text == TranscribedText(inbound[t].text, inbound[t].media, transcribed)
       IN  /\ inbound' = [inbound EXCEPT ![t].text = text]
           /\ IF HasText(text)
              THEN Goes(t, "try", <<"Router.__call__", "_route">>, <<>>, <<>>)
              ELSE Goes(t, "done", <<>>, <<>>, <<>>)
    /\ UNCHANGED <<payload, admittedAt>>
    /\ UNCHANGED <<now, _processing_cache>>
    /\ UNCHANGED notHandlerVars

\* Task t is suspended in the classifier's call.
InRoute(t) == hpc[t] = "try" /\ Last(journal[t]) = "_route"

\* router.py lines 64-73: _route returns intent i; the strategy it is
\* dispatched to runs up to its first awaited call, in a group with or
\* without community keys.
RoutedAs(t, i, withCommunity) ==
    /\ InRoute(t)
    /\ LET rest == Tail(RouterTrace(inbound[t].text, i, withCommunity))
           first == SubSeq(rest, 1, 2)
       IN  Goes(t, "try", first,
                IF Last(first) = "send_message" THEN <<ReplyOf(Dispatch(i))>> ELSE <<>>,
                SubSeq(rest, 3, Len(rest)))
    /\ UNCHANGED <<payload, inbound, admittedAt>>
    /\ UNCHANGED <<now, _processing_cache>>
    /\ UNCHANGED notHandlerVars

\* An awaited call inside the try block returns (a call of the strategy, the
\* image analysis, the send of the reply): the next call is made, a send
\* being handed its text; after the last the handler returns.
TryCallReturns(t) ==
    /\ hpc[t] = "try"
    /\ ~InRoute(t)
    /\ IF todo[t] = <<>>
       THEN Goes(t, "done", <<>>, <<>>, <<>>)
       ELSE \E text \in ReplyTexts(journal[t]) :
               Goes(t, "try", <<Head(todo[t])>>,
                    IF Head(todo[t]) = "send_message" THEN <<text>> ELSE <<>>,
                    Tail(todo[t]))
    /\ UNCHANGED <<payload, inbound, admittedAt>>
    /\ UNCHANGED <<now, _processing_cache>>
    /\ UNCHANGED notHandlerVars

\* An awaited call inside the try block raises (router.py lines 74-79 and
\* 110-115): the except branch awaits the send of the apology.
TryCallRaises(t) ==
    /\ hpc[t] = "try"
    /\ Goes(t, "except", <<"send_message">>, <<ApologyOf(journal[t])>>, <<>>)
    /\ UNCHANGED <<payload, inbound, admittedAt>>
    /\ UNCHANGED <<now, _processing_cache>>
    /\ UNCHANGED notHandlerVars

\* Lines 145-152: a group link in a group that asked for spam notices awaits
\* the spam handler; anything else falls off the end of __call__.
Spam(t, notify_on_spam) ==
    /\ hpc[t] = "spam"
    /\ IF notify_on_spam /\ HasText(inbound[t].text) /\ HasGroupLink(inbound[t].text)
       THEN Goes(t, "whatsapp_group_link_spam", <<"whatsapp_group_link_spam">>,
                 <<>>, <<>>)
       ELSE Goes(t, "done", <<>>, <<>>, <<>>)
    /\ UNCHANGED <<payload, inbound, admittedAt>>
    /\ UNCHANGED <<now, _processing_cache>>
    /\ UNCHANGED notHandlerVars

\* The awaits after which __call__ returns: the KB-QA handler (line 109), the
\* spam handler (line 151), the apology of an except branch.
LastCalls == {"kb_qa_handler", "whatsapp_group_link_spam", "except"}

\* The last await of __call__ returns.
LastCallReturns(t) ==
    /\ hpc[t] \in LastCalls
    /\ Goes(t, "done", <<>>, <<>>, <<>>)
    /\ UNCHANGED <<payload, inbound, admittedAt>>
    /\ UNCHANGED <<now, _processing_cache>>
    /\ UNCHANGED notHandlerVars

\* A mutation of CacheAfterRaise: the admission is undone when processing fails.
CacheRolledBackAfterRaise(c, key) == SelectSeq(c, LAMBDA e : e.key # key)

\* The cache after an exception left __call__: nothing after line 94 touches
\* _processing_cache, there is no except or finally that removes the key.
CacheAfterRaise(c, key) == c

\* The awaits of __call__ outside a try block.
UnprotectedCalls ==
    {"store_message", "get_my_jid", "kb_qa_handler", "session.get",
     "_enrich_with_replied_audio", "_try_get_image", "_try_transcribe_voice",
     "whatsapp_group_link_spam"}

\* The await the task is suspended in raises, outside a try block or in an
\* except branch: __call__ has no try block of its own, the exception leaves it.
Raises(t) ==
    /\ hpc[t] \in UnprotectedCalls \cup {"except"}
    /\ Goes(t, "done", <<"raised">>, <<>>, <<>>)
    /\ _processing_cache' = CacheAfterRaise(_processing_cache, inbound[t].message_id)
    /\ UNCHANGED <<payload, inbound, admittedAt>>
    /\ UNCHANGED now
    /\ UNCHANGED notHandlerVars

\* __call__ has returned or raised; the task is gone.
Complete(t) ==
    /\ hpc[t] = "done"
    /\ hpc' = [hpc EXCEPT ![t] = "idle"]
    /\ inbound' = [inbound EXCEPT ![t] = NoInbound]
    /\ journal' = [journal EXCEPT ![t] = <<>>]
    /\ outbox' = [outbox EXCEPT ![t] = <<>>]
    /\ todo' = [todo EXCEPT ![t] = <<>>]
    /\ UNCHANGED <<payload, admittedAt>>
    /\ UNCHANGED <<now, _processing_cache>>
    /\ UNCHANGED notHandlerVars

\* The timer runs on, whatever the tasks are suspended in.
HandlerTick ==
    /\ now < MaxTicks * TickSeconds
    /\ now' = now + TickSeconds
    /\ UNCHANGED _processing_cache
    /\ UNCHANGED handlerVars
    /\ UNCHANGED notHandlerVars

HandlerNext ==
    \/ \E t \in HandlerTasks :
          \/ Deliver(t)
          \/ \E stored \in BOOLEAN : StoreMessageReturns(t, stored)
          \/ \E from_bot \in BOOLEAN : GetMyJidReturns(t, from_bot)
          \/ Guard(t)
          \/ KbQa(t)
          \/ \E managed, mentioned \in BOOLEAN : MentionCheck(t, managed, mentioned)
          \/ \E replied_to_bot \in BOOLEAN : RepliedMessageReturns(t, replied_to_bot)
          \/ Mentioned(t)
          \/ \E replied_audio_transcribed \in BOOLEAN :
                EnrichReturns(t, replied_audio_transcribed)
          \/ \E image_found \in BOOLEAN : TryGetImageReturns(t, image_found)
          \/ \E transcribed \in BOOLEAN : TryTranscribeVoiceReturns(t, transcribed)
          \/ \E i \in IntentEnum, withCommunity \in BOOLEAN :
                RoutedAs(t, i, withCommunity)
          \/ TryCallReturns(t)
          \/ TryCallRaises(t)
          \/ \E notify_on_spam \in BOOLEAN : Spam(t, notify_on_spam)
          \/ LastCallReturns(t)
          \/ Raises(t)
          \/ Complete(t)
    \/ HandlerTick

SpecHandler == HandlerInit /\ [][HandlerNext]_vars

(***************************************************************************)
(* Direct messages (handler/__init__.py lines 44-84 and 252-288). Every    *)
(* delivery is a task of its own; the tasks share the OptOut table and     *)
(* interleave at their awaits. A task's journal is the calls it made, the  *)
(* last being the one it is suspended in, its outbox what it handed to     *)
(* send_message.                                                           *)
(***************************************************************************)
DmTasks == {1, 2}

DmIdle ==
    [pc |-> "idle", sender_jid |-> "none", text |-> "None", has_media |-> FALSE,
     found |-> FALSE, journal |-> <<>>, outbox |-> <<>>]

DmInit ==
    /\ GuardOff
    /\ CtxOff
    /\ RouterOff
    /\ RenderOff
    /\ SummarizeOff
    /\ WalkOff
    /\ payload = <<>>
    /\ inbound = <<>>
    /\ hpc = "off"
    /\ journal = <<>>
    /\ outbox = <<>>
    /\ admittedAt = <<>>
    /\ todo = <<>>
    /\ dm_autoreply_enabled \in BOOLEAN
    /\ optOutRecords = [p \in Senders |-> 0]
    /\ lastCommand = [p \in Senders |-> "none"]
    /\ dm = [t \in DmTasks |-> DmIdle]

\* The command of the message task t handles.
DmCommand(t) == Command(dm[t].text)

\* Task t runs on to position p, having made the calls and handed the texts
\* to send_message.
DmGoes(t, p, calls, texts) ==
    [dm[t] EXCEPT !.pc = p, !.journal = @ \o calls, !.outbox = @ \o texts]

\* Line 45: __call__ is called with the payload of a direct message and
\* awaits store_message.
DmDeliver(t, sender, text, has_media) ==
    /\ dm[t].pc = "idle"
    /\ dm' = [dm EXCEPT ![t] =
          [DmIdle EXCEPT !.pc = "store_message", !.sender_jid = sender,
                         !.text = text, !.has_media = has_media,
                         !.journal = <<"store_message">>]]
    /\ UNCHANGED <<dm_autoreply_enabled, optOutRecords, lastCommand>>
    /\ UNCHANGED notDmVars

\* Lines 45-51: store_message returns the stored message, or nothing and
\* __call__ returns; then get_my_jid is awaited.
DmStoreMessageReturns(t, stored) ==
    /\ dm[t].pc = "store_message"
    /\ dm' = [dm EXCEPT ![t] =
          IF stored THEN DmGoes(t, "get_my_jid", <<"get_my_jid">>, <<>>)
          ELSE DmGoes(t, "done", <<>>, <<>>)]
    /\ UNCHANGED <<dm_autoreply_enabled, optOutRecords, lastCommand>>
    /\ UNCHANGED notDmVars

\* Lines 51-84 and 253, 266, 280: get_my_jid returns; the bot's own messages
\* and messages with neither text nor media are ignored; one of the three
\* commands goes to its handler, which awaits the lookup of the sender's
\* row; anything else awaits the send of the auto-reply, when it is enabled.
DmGetMyJidReturns(t, from_bot) ==
    /\ dm[t].pc = "get_my_jid"
    /\ dm' = [dm EXCEPT ![t] =
          IF from_bot \/ (~HasText(dm[t].text) /\ ~dm[t].has_media)
          THEN DmGoes(t, "done", <<>>, <<>>)
          ELSE IF HasText(dm[t].text) /\ DmCommand(t) \in OptCommands
          THEN DmGoes(t, "session.get",
                      <<"handle_" \o DmCommand(t), "session.get">>, <<>>)
          ELSE IF dm_autoreply_enabled
          THEN DmGoes(t, "autoreply", <<"send_message">>, <<"dm_autoreply_message">>)
          ELSE DmGoes(t, "done", <<>>, <<>>)]
    /\ UNCHANGED <<dm_autoreply_enabled, optOutRecords, lastCommand>>
    /\ UNCHANGED notDmVars

\* The most recent opt-out/opt-in command of every sender, the commands taken
\* in the order in which they acted on the table: a command that writes
\* counts from its write, one that writes nothing from its lookup.
TookEffect(last, jid, command) ==
    IF command = "status" THEN last ELSE [last EXCEPT ![jid] = command]

\* The send_message of the handler, its text chosen by what the lookup found.
DmReplies(t, found) ==
    [DmGoes(t, "send_message", <<"send_message">>,
            <<OptOutReply(found, DmCommand(t))>>) EXCEPT !.found = found]

\* Lines 253-288: session.get returns the sender's row or nothing; a first
\* opt-out awaits upsert, an opt-in that found the row awaits
\* session.delete, anything else awaits the send of its reply.
DmGet(t) ==
    /\ dm[t].pc = "session.get"
    /\ LET jid == dm[t].sender_jid
           found == optOutRecords[jid] > 0
       IN  IF Writes(DmCommand(t), found)
           THEN /\ dm' = [dm EXCEPT ![t] =
                     [DmGoes(t, IF DmCommand(t) = "opt-out" THEN "upsert"
                                ELSE "session.delete",
                             IF DmCommand(t) = "opt-out" THEN <<"upsert">>
                             ELSE <<"session.delete">>, <<>>)
                        EXCEPT !.found = found]]
                /\ UNCHANGED lastCommand
           ELSE /\ dm' = [dm EXCEPT ![t] = DmReplies(t, found)]
                /\ lastCommand' = TookEffect(lastCommand, jid, DmCommand(t))
    /\ UNCHANGED <<dm_autoreply_enabled, optOutRecords>>
    /\ UNCHANGED notDmVars

\* Line 268-269: session.delete returns, having marked the object in the
\* task's own session; session.commit is awaited.
DmDelete(t) ==
    /\ dm[t].pc = "session.delete"
    /\ dm' = [dm EXCEPT ![t] = DmGoes(t, "session.commit", <<"session.commit">>, <<>>)]
    /\ UNCHANGED <<dm_autoreply_enabled, optOutRecords, lastCommand>>
    /\ UNCHANGED notDmVars

\* Lines 256-261 and 269-274: upsert or session.commit returns, the table
\* changed; the send of the reply is awaited.
DmWrite(t) ==
    /\ dm[t].pc \in {"upsert", "session.commit"}
    /\ optOutRecords' =
          OptOutAfter(optOutRecords, dm[t].sender_jid, DmCommand(t), dm[t].found)
    /\ lastCommand' = TookEffect(lastCommand, dm[t].sender_jid, DmCommand(t))
    /\ dm' = [dm EXCEPT ![t] = DmReplies(t, dm[t].found)]
    /\ UNCHANGED dm_autoreply_enabled
    /\ UNCHANGED notDmVars

\* The send of the reply or of the auto-reply returns, and __call__ with it.
DmSend(t) ==
    /\ dm[t].pc \in {"send_message", "autoreply"}
    /\ dm' = [dm EXCEPT ![t] = DmGoes(t, "done", <<>>, <<>>)]
    /\ UNCHANGED <<dm_autoreply_enabled, optOutRecords, lastCommand>>
    /\ UNCHANGED notDmVars

\* The awaits of a direct message that write nothing to the OptOut table.
DmCalls ==
    {"store_message", "get_my_jid", "session.get", "session.delete",
     "send_message", "autoreply"}

\* The await the task is suspended in raises; neither the handlers nor
\* __call__ have a try block, the exception leaves them. A send that raises
\* was handed its text.
DmRaises(t) ==
    /\ dm[t].pc \in DmCalls
    /\ dm' = [dm EXCEPT ![t] = DmGoes(t, "done", <<"raised">>, <<>>)]
    /\ UNCHANGED <<dm_autoreply_enabled, optOutRecords, lastCommand>>
    /\ UNCHANGED notDmVars

\* Lines 256 and 269: upsert or session.commit raises, and the exception
\* leaves the handler before its send_message. Neither call is in the
\* repository's sources and nothing says what a write that failed leaves
\* behind: the row is as the write would have left it, or as it was.
DmWriteRaises(t, written) ==
    /\ dm[t].pc \in {"upsert", "session.commit"}
    /\ IF written
       THEN /\ optOutRecords' = OptOutAfter(optOutRecords, dm[t].sender_jid,
                                            DmCommand(t), dm[t].found)
            /\ lastCommand' = TookEffect(lastCommand, dm[t].sender_jid, DmCommand(t))
       ELSE UNCHANGED <<optOutRecords, lastCommand>>
    /\ dm' = [dm EXCEPT ![t] = DmGoes(t, "done", <<"raised">>, <<>>)]
    /\ UNCHANGED dm_autoreply_enabled
    /\ UNCHANGED notDmVars

\* __call__ has returned or raised; the task is gone.
DmComplete(t) ==
    /\ dm[t].pc = "done"
    /\ dm' = [dm EXCEPT ![t] = DmIdle]
    /\ UNCHANGED <<dm_autoreply_enabled, optOutRecords, lastCommand>>
    /\ UNCHANGED notDmVars

DmNext ==
    \E t \in DmTasks :
       \/ \E sender \in Senders, text \in DmTexts, has_media \in BOOLEAN :
             /\ HasText(text) => ~has_media
             /\ DmDeliver(t, sender, text, has_media)
       \/ \E stored \in BOOLEAN : DmStoreMessageReturns(t, stored)
       \/ \E from_bot \in BOOLEAN : DmGetMyJidReturns(t, from_bot)
       \/ DmGet(t)
       \/ DmDelete(t)
       \/ DmWrite(t)
       \/ DmSend(t)
       \/ DmRaises(t)
       \/ \E written \in BOOLEAN : DmWriteRaises(t, written)
       \/ DmComplete(t)

SpecDm == DmInit /\ [][DmNext]_vars

(***************************************************************************)
(* MessageHandler.__call__: properties.                                    *)
(***************************************************************************)
\* Where a journal has the strategy the router dispatched to.
DispatchPos(j) == Pos("_route", j) + 1

\* C14 as stated: in the processing of a message that is classified, the
\* guard admission comes first, then the context-window build, then the
\* classification, then the dispatch.
C14_ContextBuiltBeforeClassification ==
    \A t \in HandlerTasks :
        (hpc[t] = "done" /\ Has("_route", journal[t])) =>
            /\ Precedes("guard_admit", "build_context_window", journal[t])
            /\ Precedes("build_context_window", "_route", journal[t])
            /\ DispatchPos(journal[t]) <= Len(journal[t])

\* C14 as amended: in the processing of a message that is classified, the
\* guard admission (of a message with a message_id) comes first, then the
\* classification, then the dispatch to one strategy (or, when the
\* classification raised, the apology); the context window is built only by
\* the knowledge lookup, after the dispatch, and not at all when the strategy
\* is summarize or about.
C14_ClassificationBeforeContextBuild ==
    \A t \in HandlerTasks :
        (hpc[t] = "done" /\ Has("_route", journal[t])) =>
            LET j == journal[t]
            IN  /\ inbound[t].message_id # 0 => Precedes("guard_admit", "_route", j)
                /\ ~Has("guard_skip", j)
                /\ DispatchPos(j) <= Len(j)
                /\ j[DispatchPos(j)] \in
                      {"summarize", "ask_knowledge_base", "about", "send_message"}
                /\ j[DispatchPos(j)] = "send_message" => outbox[t] = <<"apology">>
                /\ Has("build_context_window", j) =>
                      /\ j[DispatchPos(j)] = "ask_knowledge_base"
                      /\ DispatchPos(j) < Pos("build_context_window", j)
                /\ outbox[t] = <<ReplyOf("ask_knowledge_base")>> =>
                      Has("build_context_window", j)

\* C14 witness: a delivery admitted, classified, dispatched to the knowledge
\* lookup, which built the context window and sent its answer.
C14_Witness ==
    \E t \in HandlerTasks :
        /\ hpc[t] = "done"
        /\ Precedes("guard_admit", "_route", journal[t])
        /\ Precedes("_route", "ask_knowledge_base", journal[t])
        /\ Precedes("ask_knowledge_base", "build_context_window", journal[t])
        /\ outbox[t] = <<ReplyOf("ask_knowledge_base")>>

\* Task t takes a step of __call__.
HandlerStepOf(t) == hpc'[t] # hpc[t] \/ journal'[t] # journal[t]

\* The delivery task t has at the guard repeats a message_id admitted less
\* than ttl ago whose entry is still in the cache.
RedeliveryInWindow(t) ==
    /\ hpc[t] = "guard"
    /\ inbound[t].message_id # 0
    /\ admittedAt[inbound[t].message_id] # NeverAdmitted
    /\ now < admittedAt[inbound[t].message_id] + ttl
    /\ inbound[t].message_id \in Keys(_processing_cache)

\* C15: a group delivery repeating a message_id inside the TTL window, its
\* entry still in the guard, returns at the guard: it has made no call but
\* store_message and get_my_jid, sends nothing, and leaves the cache as it
\* is, whether the first delivery is still being processed or not.
C15_DuplicateDroppedAtGuard ==
    [][\A t \in HandlerTasks : (RedeliveryInWindow(t) /\ HandlerStepOf(t)) =>
          /\ hpc'[t] = "done"
          /\ journal'[t] = <<"store_message", "get_my_jid", "guard_skip">>
          /\ outbox'[t] = <<>>
          /\ _processing_cache' = _processing_cache]_vars

\* C15 witness: a delivery dropped at the guard in the second its message_id
\* was admitted, while the first delivery is suspended in the send of its
\* reply.
C15_Witness ==
    \E t, u \in HandlerTasks :
        /\ hpc[t] = "done"
        /\ inbound[t].chat = "group"
        /\ journal[t] = <<"store_message", "get_my_jid", "guard_skip">>
        /\ admittedAt[inbound[t].message_id] = now
        /\ outbox[t] = <<>>
        /\ u # t
        /\ inbound[u].message_id = inbound[t].message_id
        /\ hpc[u] = "try"
        /\ Has("guard_admit", journal[u])
        /\ Last(journal[u]) = "send_message"

\* What the handler does for a message: a change of the OptOut table, an
\* outbound message, or the hand-over to a handler.
HandlerActions ==
    {"upsert", "session.delete", "send_message", "kb_qa_handler", "analyze_image",
     "Router.__call__", "whatsapp_group_link_spam"}

\* C16: no delivery, group or direct, causes a handler action without having
\* passed guard admission before it.
C16_GuardBeforeEveryAction ==
    \A t \in DmTasks :
        \A k \in 1..Len(dm[t].journal) :
            dm[t].journal[k] \in HandlerActions =>
                \E j \in 1..(k - 1) : dm[t].journal[j] = "guard_admit"

\* C17: a /kb_qa command from a group outside qa_test_groups, or from a
\* sender outside qa_testers, ends with nothing sent and neither the KB-QA
\* handler, nor the router, nor the spam handler invoked.
C17_UnauthorizedKbQaDropped ==
    \A t \in HandlerTasks :
        (/\ hpc[t] = "done"
         /\ inbound[t].chat = "group"
         /\ StartsWithKbQa(inbound[t].text)
         /\ ~(inbound[t].in_qa_test_groups /\ inbound[t].in_qa_testers)) =>
            /\ outbox[t] = <<>>
            /\ \A k \in 1..Len(journal[t]) : journal[t][k] \notin HandlerActions

\* C17 witness: a tester's /kb_qa from a group that is not whitelisted, and
\* admitted by the guard, has ended.
C17_Witness ==
    \E t \in HandlerTasks :
        /\ hpc[t] = "done"
        /\ inbound[t].chat = "group"
        /\ StartsWithKbQa(inbound[t].text)
        /\ inbound[t].in_qa_testers
        /\ ~inbound[t].in_qa_test_groups
        /\ journal[t] = <<"store_message", "get_my_jid", "guard_admit">>

\* C18: Router.__call__ given no text (None or empty) makes no call at all,
\* so no classification, backend call or send; the knowledge lookup given
\* text None makes no call either; and a mentioned message that has no text
\* after the transcription attempts is not passed to Router.__call__ and gets
\* no reply.
C18_MissingTextDropped ==
    /\ \A i \in IntentEnum :
          /\ \A withCommunity \in BOOLEAN :
                /\ RouterTrace("None", i, withCommunity) = <<>>
                /\ RouterTrace("", i, withCommunity) = <<>>
    /\ \A withCommunity \in BOOLEAN :
          StrategyTrace("ask_knowledge_base", "None", withCommunity) = <<>>
    /\ \A t \in HandlerTasks :
          /\ Has("Router.__call__", journal[t]) =>
                /\ HasText(inbound[t].text)
                /\ Has("_route", journal[t])
          /\ (hpc[t] = "done" /\ Has("_try_transcribe_voice", journal[t])
                 /\ ~HasText(inbound[t].text)) =>
                /\ ~Has("Router.__call__", journal[t])
                /\ ~Has("_route", journal[t])
                /\ outbox[t] = <<>>

\* C18 witness: a mentioned voice message whose transcription gave nothing
\* has ended without the router.
C18_Witness ==
    \E t \in HandlerTasks :
        /\ hpc[t] = "done"
        /\ inbound[t].media = "audio"
        /\ inbound[t].text = "None"
        /\ Last(journal[t]) = "_try_transcribe_voice"

\* Task t handles one of the three commands.
HandlesCommand(t) == Has("handle_" \o DmCommand(t), dm[t].journal)

\* Task t takes a step.
StepOf(t) == dm'[t] # dm[t]

\* The number of send_message calls in a journal.
Sends(j) == Cardinality({k \in 1..Len(j) : j[k] = "send_message"})

\* What C19 says of the table: at most one row per sender, the row there
\* exactly when the sender's most recent opt-out/opt-in command, in the order
\* in which the commands read or wrote the table, was opt-out; a
\* repeated opt-out or opt-in and every status leave the table as it is, and
\* no command touches another sender's row.
TableFollowsCommands ==
    /\ [](\A p \in Senders :
            /\ optOutRecords[p] \in {0, 1}
            /\ optOutRecords[p] = 1 <=> lastCommand[p] = "opt-out")
    /\ [][\A t \in DmTasks : (HandlesCommand(t) /\ StepOf(t)) =>
            LET p == dm[t].sender_jid
                command == DmCommand(t)
            IN  /\ command = "status" => optOutRecords' = optOutRecords
                /\ (command = "opt-out" /\ optOutRecords[p] = 1) =>
                      optOutRecords' = optOutRecords
                /\ (command = "opt-in" /\ optOutRecords[p] = 0) =>
                      optOutRecords' = optOutRecords
                /\ \A q \in Senders \ {p} : optOutRecords'[q] = optOutRecords[q]
       ]_vars

\* C19: the table follows the commands, and every command is answered by
\* exactly one message: a task that handled opt-out, opt-in or status has,
\* when its __call__ ends, handed exactly one text to send_message.
C19_OptOutLifecycle ==
    /\ TableFollowsCommands
    /\ [][\A t \in DmTasks :
            (HandlesCommand(t) /\ StepOf(t) /\ dm'[t].pc = "done") =>
                /\ Len(dm'[t].outbox) = 1
                /\ Sends(dm'[t].journal) = 1]_vars

(***************************************************************************)
(* Router.summarize (handler/router.py lines 117-145), await by await: the *)
(* query for the slice (line 126), the opt-out map (line 132) and the      *)
(* transcript handed to agent.run (line 143). While summarize is suspended *)
(* in the query or in the map, other deliveries store their messages and   *)
(* handle opt-out commands. Times are in minutes.                          *)
(***************************************************************************)
\* timedelta(hours=24)
SummarizeWindowHours == 24
Hours(h) == h * 60
RowChats == {"g1", "g2"}
RowSenders == {Jid("111", "s.whatsapp.net"), Jid("222", "s.whatsapp.net")}
\* datetime.now() at the call.
CallTime == 2000
\* The timestamps of the rows that differ from table to table: a minute too
\* old, exactly 24 hours old, the timestamp of the thirtieth of the other
\* rows, and current.
RowTimes == {CallTime - Hours(SummarizeWindowHours) - 1,
             CallTime - Hours(SummarizeWindowHours),
             CallTime - SummarizeLimit, CallTime}
\* How many further rows of the asking chat a table has, one a minute back
\* from the call: none, one short of the limit, the limit.
BulkSizes == {0, SummarizeLimit - 1, SummarizeLimit}
\* How many rows the table has besides those.
FreeRows == 2
\* How many messages other deliveries store while summarize is suspended.
MaxStores == 1

Row(id, chat, ts, sender, text) ==
    [message_id |-> id, chat_jid |-> chat, timestamp |-> ts, sender_jid |-> sender,
     text |-> text, reactions |-> <<>>]

\* The Message tables summarize is called with.
Tables ==
    {[id \in 1..(n + FreeRows) |->
         IF id <= n
         THEN Row(id, "g1", CallTime - id, Jid("111", "s.whatsapp.net"), "hi")
         ELSE Row(id, f[id - n].chat_jid, f[id - n].timestamp, f[id - n].sender_jid,
                  "hi")] :
       n \in BulkSizes,
       f \in [1..FreeRows -> [chat_jid : RowChats, timestamp : RowTimes,
                              sender_jid : RowSenders]]}

\* The first n rows of every newest-first order of the rows ids: rows with
\* equal timestamps come in any order.
RECURSIVE NewestFirst(_, _, _)
NewestFirst(rows, ids, n) ==
    IF ids = {} \/ n = 0 THEN {<<>>}
    ELSE LET newest == {id \in ids :
                           \A o \in ids : rows[id].timestamp >= rows[o].timestamp}
         IN  UNION {{<<rows[id]>> \o rest : rest \in NewestFirst(rows, ids \ {id}, n - 1)} :
                       id \in newest}

\* A mutation of SummarizeQuery: the 24-hour condition left out.
SummarizeQueryAnyAge(rows, chat, since, n) ==
    NewestFirst(rows, {id \in DOMAIN rows : rows[id].chat_jid = chat}, n)

\* select(Message).where(chat_jid == chat).where(timestamp >= since)
\* .order_by(desc(timestamp)).limit(n) (lines 119-127): the matching rows
\* newest first, cut to n rows.
SummarizeQuery(rows, chat, since, n) ==
    NewestFirst(rows, {id \in DOMAIN rows :
                         rows[id].chat_jid = chat /\ rows[id].timestamp >= since}, n)

SummarizeInit ==
    /\ GuardOff
    /\ CtxOff
    /\ RouterOff
    /\ HandlerOff
    /\ WalkOff
    /\ table \in Tables
    /\ asking_chat = "g1"
    /\ call_time = CallTime
    /\ history = <<>>
    /\ asker \in RowSenders
    /\ optOutStore \in SUBSET RowSenders
    /\ tpc = "input"
    /\ renderedBy = "none"
    /\ all_jids = {}
    /\ opt_out_map = <<>>
    /\ bot_arg = NoJid
    /\ transcript = <<>>
    /\ asker_display = ""

\* Lines 117-126: summarize is called, builds the statement with
\* time_24_hours_ago = datetime.now() - timedelta(hours=24), and awaits
\* session.exec.
summarize ==
    /\ tpc = "input"
    /\ tpc' = "session.exec"
    /\ UNCHANGED <<history, asker, optOutStore, renderedBy, all_jids, opt_out_map,
                   bot_arg, transcript, asker_display>>
    /\ UNCHANGED summarizeVars
    /\ UNCHANGED notSummarizeVars

\* Lines 126-132: session.exec returns the rows the table has for the
\* statement; all_jids is their senders and the asker, and get_opt_out_map is
\* awaited.
SessionExecReturns ==
    /\ tpc = "session.exec"
    /\ \E messages \in SummarizeQuery(table, asking_chat,
                                      call_time - Hours(SummarizeWindowHours),
                                      SummarizeLimit) :
          /\ history' = messages
          /\ all_jids' = AllJids(messages, asker)
    /\ tpc' = "get_opt_out_map"
    /\ UNCHANGED <<asker, optOutStore, renderedBy, opt_out_map, bot_arg, transcript,
                   asker_display>>
    /\ UNCHANGED summarizeVars
    /\ UNCHANGED notSummarizeVars

\* Lines 132-145: get_opt_out_map returns the map of the OptOut table as it
\* is now; the prompt is rendered with chat2text(list(messages), opt_out_map),
\* without a bot_jid, and agent.run is awaited.
GetOptOutMapReturns ==
    /\ tpc = "get_opt_out_map"
    /\ LET map == get_opt_out_map(all_jids)
       IN  /\ opt_out_map' = map
           /\ asker_display' = MapGet(map, ParseJidUser(asker))
           /\ transcript' = chat2text(history, map, NoJid)
    /\ bot_arg' = NoJid
    /\ renderedBy' = "summarize"
    /\ tpc' = "done"
    /\ UNCHANGED <<history, asker, optOutStore, all_jids>>
    /\ UNCHANGED summarizeVars
    /\ UNCHANGED notSummarizeVars

\* session.exec or get_opt_out_map raises: summarize has no try block, the
\* exception goes to Router.__call__ and nothing is handed to agent.run.
SummarizeRaises ==
    /\ tpc \in {"session.exec", "get_opt_out_map"}
    /\ tpc' = "raised"
    /\ UNCHANGED <<history, asker, optOutStore, renderedBy, all_jids, opt_out_map,
                   bot_arg, transcript, asker_display>>
    /\ UNCHANGED summarizeVars
    /\ UNCHANGED notSummarizeVars

\* The rows other deliveries stored since the call.
StoredSince == {id \in DOMAIN table : table[id].text = "new"}

\* While summarize is suspended, MessageHandler.__call__ of another delivery
\* stores its message (handler/__init__.py line 45).
SummarizeStoreMessage(chat, sender) ==
    /\ tpc \in {"session.exec", "get_opt_out_map"}
    /\ Cardinality(StoredSince) < MaxStores
    /\ table' = Append(table, Row(Len(table) + 1, chat, call_time, sender, "new"))
    /\ UNCHANGED <<asking_chat, call_time>>
    /\ UNCHANGED renderVars
    /\ UNCHANGED notSummarizeVars

SummarizeNext ==
    \/ summarize
    \/ SessionExecReturns
    \/ GetOptOutMapReturns
    \/ SummarizeRaises
    \/ \E chat \in RowChats, sender \in RowSenders : SummarizeStoreMessage(chat, sender)
    \/ \E jid \in RowSenders : OptOutStoreChanges(jid)

SpecSummarize == SummarizeInit /\ [][SummarizeNext]_vars

(***************************************************************************)
(* Router.summarize: properties.                                           *)
(***************************************************************************)
\* The rows of the asking message's chat that are at most 24 hours old.
InSummarizeWindow(id) ==
    /\ table[id].chat_jid = asking_chat
    /\ table[id].timestamp >= call_time - Hours(SummarizeWindowHours)

\* The slice holds the most recent rows of the window: no row of the window
\* outside it is newer than a row in it, and none is outside it while it is
\* short of the limit.
MostRecentOfWindow(slice) ==
    \A id \in DOMAIN table :
        (InSummarizeWindow(id) /\ id \notin Ids(slice)) =>
            /\ Len(slice) = SummarizeLimit
            /\ \A i \in 1..Len(slice) : slice[i].timestamp >= table[id].timestamp

\* C20: the slice summarize hands to the backend has at most 30 messages,
\* each a distinct stored row of the asking message's chat no older than 24
\* hours before the call; it is in newest-first order and is, as the query
\* returns it, the most recent rows of the window; the transcript has one
\* line per row of the slice, in that order; the opt-out map is asked for
\* exactly the senders of the slice and the asker, and whoever of them has
\* an OptOut row when the map is read is rendered with the anonymized label.
C20_SummarizeSlice ==
    /\ [](tpc = "done" =>
            /\ Len(history) <= SummarizeLimit
            /\ \A i \in 1..Len(history) :
                  /\ history[i].message_id \in DOMAIN table
                  /\ history[i] = table[history[i].message_id]
                  /\ history[i].chat_jid = asking_chat
                  /\ history[i].timestamp >= call_time - Hours(SummarizeWindowHours)
            /\ \A i, j \in 1..Len(history) :
                  /\ i < j => history[i].timestamp >= history[j].timestamp
                  /\ i # j => history[i].message_id # history[j].message_id
            /\ Len(transcript) = Len(history)
            /\ \A i \in 1..Len(history) : transcript[i].timestamp = history[i].timestamp
            /\ all_jids = {history[i].sender_jid : i \in 1..Len(history)} \cup {asker}
            /\ DOMAIN opt_out_map \subseteq {ParseJidUser(jid) : jid \in all_jids})
    /\ [][(tpc = "session.exec" /\ tpc' = "get_opt_out_map") =>
             MostRecentOfWindow(history')]_vars
    /\ [][(tpc = "get_opt_out_map" /\ tpc' = "done") =>
             /\ history' = history
             /\ \A i \in 1..Len(history) :
                   history[i].sender_jid \in optOutStore
                      => transcript'[i].sender_display = AnonLabel
             /\ asker \in optOutStore => asker_display' = AnonLabel]_vars

\* C20 witness: the limit cut a row of the window off the slice, a row of the
\* chat was too old for it, another delivery stored a message of the chat
\* after the query, and the asker is none of the slice's senders.
C20_Witness ==
    /\ tpc = "done"
    /\ Len(history) = SummarizeLimit
    /\ history[1].timestamp > history[SummarizeLimit].timestamp
    /\ \E id \in DOMAIN table \ StoredSince :
          InSummarizeWindow(id) /\ id \notin Ids(history)
    /\ \E id \in DOMAIN table :
          /\ table[id].chat_jid = asking_chat
          /\ table[id].timestamp < call_time - Hours(SummarizeWindowHours)
    /\ \E id \in StoredSince : InSummarizeWindow(id) /\ id \notin Ids(history)
    /\ asker \notin {history[i].sender_jid : i \in 1..Len(history)}

(***************************************************************************)
(* The reply-chain walk: properties.                                       *)
(***************************************************************************)
\* The parent of current is absent: no reply_to_id, or no row for it.
ParentAbsent ==
    \/ walk_current.reply_to_id = 0
    \/ SessionGet(walk_current.reply_to_id) = NoMessage

\* C21: whatever the stored reply_to links (cycles and self-replies
\* included), resolve_reply_chain makes at most max_depth lookups and returns
\* at most max_depth ancestors; it returns; and, no lookup having raised, a
\* walk that returns fewer than max_depth ancestors met a message with no
\* reply_to_id or with a parent that is not stored when it is looked up,
\* while a walk that meets such a message returns at once and any other walk
\* below the bound goes on.
C21_WalkBoundedAndTerminates ==
    /\ [](/\ walk_lookups <= walk_max_depth
          /\ Len(walk_chain) <= walk_lookups
          /\ wpc # "walking" => Len(reply_chain) <= walk_max_depth
          /\ (wpc # "walking" /\ QuietCall) =>
                /\ Len(reply_chain) < walk_max_depth => ParentAbsent
                /\ reply_chain = Reverse(WalkReplyChain(message, <<>>, walk_max_depth)))
    /\ [][(wpc = "walking" /\ ~walk_raised' /\ walkVars' # walkVars) =>
             IF ParentAbsent \/ Len(walk_chain) >= walk_max_depth
             THEN wpc' = "returned" /\ reply_chain' = Reverse(walk_chain)
             ELSE wpc' = "walking" /\ Len(walk_chain') = Len(walk_chain) + 1]_vars
    /\ <>(wpc # "walking")

\* C21 witness: a walk of the default depth around a cycle has returned ten
\* ancestors after ten lookups.
C21_Witness ==
    /\ wpc = "returned"
    /\ ~walk_raised
    /\ walk_max_depth = _MAX_REPLY_CHAIN_DEPTH
    /\ walk_lookups = _MAX_REPLY_CHAIN_DEPTH
    /\ Len(reply_chain) = _MAX_REPLY_CHAIN_DEPTH
    /\ \E i \in 1..Len(reply_chain) : reply_chain[i].message_id = message.message_id

\* The ancestors the walk would collect were no lookup to raise, newest last.
FullWalk == WalkReplyChain(message, <<>>, walk_max_depth)

\* C22: when a lookup raises after k ancestors were collected, the walk
\* returns (it raises nothing) exactly those k ancestors, oldest first, and
\* build_context_window goes on with them: they are all in the window.
C22_LookupsFailOpen ==
    /\ [][(wpc = "walking" /\ walk_raised') =>
             /\ wpc' = "returned"
             /\ Len(reply_chain') = walk_lookups
             /\ reply_chain' = Reverse(SubSeq(FullWalk, 1, walk_lookups))]_vars
    /\ []((wpc = "built" /\ walk_raised) =>
             /\ cpc = "done"
             /\ Len(reply_chain) = walk_lookups - 1
             /\ combined = SortedByTimestamp(reply_chain \o recent)
             /\ \A i \in 1..Len(reply_chain) :
                   Count(reply_chain[i], combined) >= Count(reply_chain[i], reply_chain))

\* C22 witness: the second lookup raised, the one ancestor found is in the
\* window next to a recent message.
C22_Witness ==
    /\ wpc = "built"
    /\ walk_raised
    /\ walk_lookups = 2
    /\ Len(reply_chain) = 1
    /\ Len(recent) = 1
    /\ Len(combined) = 2

(***************************************************************************)
(* The fill loop: properties.                                              *)
(***************************************************************************)
\* The candidates whose ids are not in ids, in their order.
Unseen(rows, ids) == SelectSeq(rows, LAMBDA m : m.message_id \notin ids)

\* The cost the loop charges for the first k of rows: len(text) // 4 each.
RECURSIVE PrefixCost(_, _)
PrefixCost(rows, k) ==
    IF k = 0 THEN 0
    ELSE PrefixCost(rows, k - 1) + (rows[k].textlen \div _CHARS_PER_TOKEN)

\* The length of the longest prefix of rows within budget and slots.
LongestPrefix(rows, remaining_budget, remaining_slots) ==
    CHOOSE k \in 0..Len(rows) :
        /\ k <= remaining_slots /\ PrefixCost(rows, k) <= remaining_budget
        /\ \A j \in (k + 1)..Len(rows) :
              j > remaining_slots \/ PrefixCost(rows, j) > remaining_budget

\* C23: when build_context_window fetches candidates (the chat's rows, newest
\* first), the recent messages it accepts are the longest prefix of the
\* candidates that are neither in the reply chain nor the triggering message
\* whose summed per-message cost len(text) // 4 is within remaining_budget and
\* whose count is within remaining_slots; so nothing older than a candidate
\* rejected for budget is accepted.
C23_GreedyRecencyFill ==
    (CtxDone /\ fetched) =>
        LET seen == Ids(reply_chain) \cup {message.message_id}
            unseen == Unseen(fetched_rows, seen)
            remaining_budget == Max(0, token_budget - _estimate_tokens(reply_chain))
            remaining_slots == Max(0, max_messages - Len(reply_chain))
        IN  /\ \A i \in 1..Len(fetched_rows) :
                  /\ fetched_rows[i].chat_jid = message.chat_jid
                  /\ i > 1 => fetched_rows[i - 1].timestamp >= fetched_rows[i].timestamp
            /\ recent = SubSeq(unseen, 1,
                               LongestPrefix(unseen, remaining_budget, remaining_slots))

\* C23 witness: a candidate was rejected for budget while an older unseen
\* candidate would have fitted in the budget and in a free slot.
C23_Witness ==
    /\ CtxDone
    /\ fetched
    /\ LET seen == Ids(reply_chain) \cup {message.message_id}
           unseen == Unseen(fetched_rows, seen)
           remaining_budget == Max(0, token_budget - _estimate_tokens(reply_chain))
           remaining_slots == Max(0, max_messages - Len(reply_chain))
           k == Len(recent)
       IN  /\ k >= 1
           /\ k + 2 <= Len(unseen)
           /\ k + 1 <= remaining_slots
           /\ PrefixCost(unseen, k + 1) > remaining_budget
           /\ PrefixCost(unseen, k) + (unseen[k + 2].textlen \div _CHARS_PER_TOKEN)
                 <= remaining_budget

\* C27: build_context_window accepts at most max(0, max_messages - |chain|)
\* recent messages; the window it returns has at most
\* max(max_messages, |chain|) entries, and at most max_messages when the chain
\* is no longer than max_messages.
C27_WindowSizeBound ==
    CtxDone =>
        /\ Len(recent) <= Max(0, max_messages - Len(reply_chain))
        /\ Len(combined) <= Max(max_messages, Len(reply_chain))
        /\ Len(reply_chain) <= max_messages => Len(combined) <= max_messages

\* C27 witness: the chain left one slot and a candidate took it.
C27_Witness ==
    /\ CtxDone
    /\ Len(reply_chain) = 1
    /\ max_messages = 2
    /\ Len(recent) = 1
    /\ Len(combined) = max_messages

(***************************************************************************)
(* Dedup guard: the lock's section and the cache's capacity.               *)
(***************************************************************************)
\* Task t is inside the `async with _processing_lock` block (lines 89-94).
InLockedSection(t) == pc[t] \in {"check", "set"}

\* Task t is past the guard, at line 96 onwards, where the storage reads, the
\* transport calls and the reasoning-backend calls of the handlers are awaited.
AtExternalCall(t) == pc[t] = "admitted"

\* C24: a task holds the _processing_lock exactly while it is at the
\* membership check or the insert; every step it takes holding the lock is the
\* check, the insert or the early return, none of them an external call; so a
\* task waiting for the lock waits only for a holder that is inside the
\* section, never for a task that is at an external call.
C24_LockNeverHeldAcrossSuspension ==
    /\ [](\A t \in Tasks :
            /\ (_processing_lock = t) <=> InLockedSection(t)
            /\ AtExternalCall(t) => _processing_lock # t
            /\ (pc[t] = "guard" /\ ~LockFree) =>
                  InLockedSection(_processing_lock) /\ _processing_lock # t)
    /\ [][\A t \in Tasks :
            (_processing_lock = t /\ pc'[t] # pc[t]) =>
                \/ pc[t] = "check" /\ pc'[t] = "set" /\ _processing_lock' = t
                \/ pc[t] = "check" /\ pc'[t] = "skipped" /\ _processing_lock' = NoTask
                \/ pc[t] = "set" /\ pc'[t] = "admitted" /\ _processing_lock' = NoTask]_vars

\* C24 witness: one task is past the guard, in the handlers' external calls,
\* while the other waits at the lock, which is free.
C24_Witness ==
    /\ \E t, u \in Tasks :
          /\ pc[t] = "admitted"
          /\ pc[u] = "guard"
    /\ LockFree

\* The entries of the cache that have not expired at time t, as TTLCache
\* sees them when it makes room.
Live(c, t) == SelectSeq(c, LAMBDA e : t < e.expires)

\* The key among keys that was admitted first, by the admission history.
OldestInserted(keys) ==
    CHOOSE k \in keys : \A j \in keys : LastAdmission(k) <= LastAdmission(j)

\* C25: the dedup guard never holds more than its capacity of entries, and
\* an insert of a new id into a full cache of unexpired entries evicts exactly
\* the entry inserted first; an insert into a cache with room evicts nothing
\* unexpired.
C25_GuardCapacity ==
    /\ [](Len(_processing_cache) <= MaxSize)
    /\ [][\A t \in Tasks :
            (pc[t] = "set" /\ pc'[t] = "admitted") =>
                LET live == Keys(Live(_processing_cache, now))
                IN  IF Cardinality(live) >= MaxSize
                    THEN Keys(_processing_cache') =
                            (live \ {OldestInserted(live)}) \cup {msg[t]}
                    ELSE Keys(_processing_cache') = live \cup {msg[t]}]_vars

\* C25 witness: the cache is full and an id admitted less than the TTL ago
\* is no longer in it.
C25_Witness ==
    /\ Len(_processing_cache) = MaxSize
    /\ \E i \in 1..Len(admissions) :
          /\ now < admissions[i].at + ttl
          /\ admissions[i].id \notin Keys(_processing_cache)
          /\ \A j \in 1..Len(admissions) : admissions[j].id = admissions[i].id => j = i

(***************************************************************************)
(* Rendering: the bot's own messages.                                      *)
(***************************************************************************)
\* Line i of the transcript is a message sent by the bot.
FromBot(i) == ParseJidUser(history[i].sender_jid) = ParseJidUser(BotJid)

\* C26 as stated: in the transcript a strategy renders (summarization, query
\* reformulation, answer generation) every message sent by the bot is
\* labelled "[Bot]", not with a handle; and wherever chat2text is given the
\* bot's identifier the marker wins over an entry of the redaction map.
C26_BotLabelledInEveryTranscript ==
    Rendered =>
        /\ renderedBy \in {"summarize", "ask_knowledge_base"} =>
              \A i \in 1..Len(history) :
                  FromBot(i) => transcript[i].sender_display = "[Bot]"
        /\ (renderedBy = "any" /\ bot_arg = BotJid) =>
              \A i \in 1..Len(history) :
                  FromBot(i) => transcript[i].sender_display = "[Bot]"

(***************************************************************************)
(* MessageHandler.__call__: what becomes of an admission.                  *)
(***************************************************************************)
\* The processing a journal records ended by an exception.
EndedRaised(j) == Last(j) = "raised"

\* The ids other than m admitted no earlier than m was.
AdmittedSince(m) ==
    {j \in DeliveredIds \ {0, m} :
        admittedAt[j] # NeverAdmitted /\ admittedAt[j] >= admittedAt[m]}

\* C28: an id that passed the guard stays in the cache whatever its
\* processing does afterwards (handled, dropped as unauthorized, unmanaged or
\* unmentioned, or an exception): an entry leaves the cache only by TTL expiry
\* or by the admission of another id into a full cache; so a delivery that
\* repeats the id inside the TTL returns at the guard, and a delivery rejected
\* there causes no handler action.
C28_AdmissionNeverRolledBack ==
    /\ [](\A m \in DeliveredIds \ {0} :
            (/\ admittedAt[m] # NeverAdmitted
             /\ now < admittedAt[m] + ttl
             /\ Cardinality(AdmittedSince(m)) < MaxSize)
                => CacheContains(_processing_cache, m, now))
    /\ [][\A m \in DeliveredIds \ {0} :
            (CacheContains(_processing_cache, m, now')
                /\ ~CacheContains(_processing_cache', m, now')) =>
                    \E t \in HandlerTasks :
                        /\ hpc[t] = "guard"
                        /\ HandlerStepOf(t)
                        /\ inbound[t].message_id \notin {0, m}
                        /\ Len(Live(_processing_cache, now)) >= MaxSize]_vars
    /\ [][\A t \in HandlerTasks :
            (/\ hpc[t] = "guard"
             /\ HandlerStepOf(t)
             /\ inbound[t].message_id # 0
             /\ admittedAt[inbound[t].message_id] # NeverAdmitted
             /\ now < admittedAt[inbound[t].message_id] + ttl
             /\ Cardinality(AdmittedSince(inbound[t].message_id)) < MaxSize) =>
                /\ hpc'[t] = "done"
                /\ journal'[t] = Append(journal[t], "guard_skip")
                /\ outbox'[t] = outbox[t]
                /\ UNCHANGED <<_processing_cache, admittedAt>>]_vars
    /\ [](\A t \in HandlerTasks : Has("guard_skip", journal[t]) =>
            \A k \in 1..Len(journal[t]) : journal[t][k] \notin HandlerActions)

\* C28 witness: the processing of an admitted message raised, and the
\* delivery that repeats its id later inside the TTL was rejected at the guard.
C28_Witness ==
    \E t, u \in HandlerTasks :
        /\ hpc[u] = "done"
        /\ Has("guard_admit", journal[u])
        /\ EndedRaised(journal[u])
        /\ hpc[t] = "done"
        /\ inbound[t].message_id = inbound[u].message_id
        /\ admittedAt[inbound[t].message_id] < now
        /\ now < admittedAt[inbound[t].message_id] + ttl
        /\ journal[t] = <<"store_message", "get_my_jid", "guard_skip">>

(***************************************************************************)
(* Router: what a routed message gets.                                     *)
(***************************************************************************)
\* The replies a strategy sends.
StrategyReplies == {"summary", "about_text", "answer"}

\* C29: of a message passed to Router.__call__ at most one outbound message
\* is delivered: the reply of the strategy that was dispatched, or the
\* apology, never both; the apology is delivered only after an exception was
\* caught, the strategy's reply not having been delivered.
C29_AtMostOneOutcome ==
    /\ [](/\ Len(sent) <= 1
          /\ sent # <<>> =>
                \/ sent = <<"apology">> /\ caught
                \/ /\ sent = <<ReplyOf(strategy)>>
                   /\ ~caught
                   /\ strategy # "none")
    /\ [][sent' # sent =>
            /\ sent = <<>>
            /\ \/ rpc = "except" /\ sent' = <<"apology">>
               \/ /\ rpc = "strategy" /\ CurrentStep = "send_message"
                  /\ sent' \in {<<r>> : r \in StrategyReplies}
                  /\ rpc' = "done"]_vars

\* C29 witness: the knowledge lookup's own send_message raised, its reply was
\* not delivered, and the apology was.
C29_Witness ==
    /\ rpc = "done"
    /\ strategy = "ask_knowledge_base"
    /\ CurrentStep = "send_message"
    /\ caught
    /\ sent = <<"apology">>

\* Router.__call__ has tried to send: a reply or the apology was delivered,
\* or the call ended with the exception of the apology's send_message.
SendAttempted == sent # <<>> \/ outcome = "raised"

\* C30: every external call returning or raising in the end, Router.__call__
\* on a message with text ends, having tried to send a strategy's reply or the
\* apology; no retry loop goes beyond its six attempts.
C30_EveryRoutedMessageAnswered ==
    /\ []((rpc = "done" /\ rtext = "text") => SendAttempted)
    /\ [](attempts <= StopAfterAttempt)
    /\ (rtext = "text") ~> (rpc = "done" /\ SendAttempted)

\* C30 witness: generation_agent failed all of its six attempts, and the call
\* ended after the apology.
C30_Witness ==
    /\ rpc = "done"
    /\ rtext = "text"
    /\ strategy = "ask_knowledge_base"
    /\ CurrentStep = "generation_agent"
    /\ attempts = StopAfterAttempt
    /\ sent = <<"apology">>

====
